---------------------------- MODULE Spec2Model ----------------------------
(***************************************************************************)
(* A model of cpplog: the Logger class template (logger.h), its format     *)
(* string parser and padding engine, and the LogImpl decoration path       *)
(* (logimpl.h).  Strings are sequences of one-character strings; the       *)
(* terminating NUL of a C string is the token NUL.                         *)
(***************************************************************************)
EXTENDS Integers, Sequences, FiniteSets, TLC

\* ------------------------------------------------------------------ bounds
\* the threads sharing one Logger
Threads == {"t1", "t2"}
\* the threads are interchangeable: the first call is this thread's
FirstThread == "t1"
\* the Logger objects of the program
Loggers == {"logger", "logger2"}
\* logging calls issued in one behaviour
MaxCalls == 2
\* configuration setter calls issued in one behaviour
MaxSets == 2
\* stack frames a self-recursive call may push before the stack is exhausted
MaxStack == 2
\* longest enumerated text handed to the padding engine
MaxTextLen == 3
\* largest enumerated max length handed to the padding engine
MaxPadLen == 5

\* ------------------------------------------------- logdefinitions.h values
NEWLINE == 1
TIMESTAMP == 2
HIGHLIGHT_RED == 4
HIGHLIGHT_GREEN == 8
HIGHLIGHT_YELLOW == 16
HIGHLIGHT_DEF == 32
NO_SIZE_LIMIT == 64
TYPE_SIZE == 128
NAME == 256

RECURSIVE BitOr(_, _)
\* a | b on LogFormat (uint64_t) values
BitOr(a, b) ==
  IF a = 0 THEN b
  ELSE IF b = 0 THEN a
  ELSE (IF a % 2 = 1 \/ b % 2 = 1 THEN 1 ELSE 0) + 2 * BitOr(a \div 2, b \div 2)

RECURSIVE BitAnd(_, _)
\* a & b on LogFormat (uint64_t) values
BitAnd(a, b) ==
  IF a = 0 \/ b = 0 THEN 0
  ELSE (IF a % 2 = 1 /\ b % 2 = 1 THEN 1 ELSE 0) + 2 * BitAnd(a \div 2, b \div 2)

\* LogVerboseLevel
STANDARD == BitOr(NEWLINE, TIMESTAMP)
VERBOSE == BitOr(BitOr(NEWLINE, TIMESTAMP), BitOr(TYPE_SIZE, NAME))

\* LogOutputLevel; GARBAGE stands for any other value an uninitialised
\* _log_output_lvl may hold
QUIET == "QUIET"
DEFAULT == "DEFAULT"
DEBUG == "DEBUG"
GARBAGE == "GARBAGE"

\* FormatStringSpecifier
NUL == "NUL"
NONE == NUL
INT == "d"
FLOAT == "f"
HEX == "x"
STRING_SPEC == "s"
CHAR == "c"
BOOL == "b"
OBJECT == "o"
OPEN == "{"
CLOSE == "}"
DECIMAL_PLACES == "."
PAD_LEFT == ">"
PAD_RIGHT == "<"

\* ------------------------------------------------------ FormatStringObject
\* FormatStringObject::FormatStringObject()
FormatStringObject ==
  [type |-> NONE, left_pad_chr |-> NUL, right_pad_chr |-> NUL,
   mx_len |-> 0, mx_decimal_places |-> 0, start_idx |-> 0, end_idx |-> 0]

RECURSIVE pad(_, _)
\* FormatStringObject::pad: n copies of pad_chr
pad(n, pad_chr) == IF n <= 0 THEN <<>> ELSE <<pad_chr>> \o pad(n - 1, pad_chr)

DigitChars == <<"0", "1", "2", "3", "4", "5", "6", "7", "8", "9">>

\* FormatStringObject::is_number
is_number(chr) == \E k \in 1..10 : DigitChars[k] = chr

DigitVal(chr) == (CHOOSE k \in 1..10 : DigitChars[k] = chr) - 1

\* fmt_str[i] of a NUL-terminated C string: the NUL at strlen, and whatever
\* the memory behind it holds (g) past that
CharAt(fmt_str, i, g) ==
  IF i < Len(fmt_str) THEN fmt_str[i + 1]
  ELSE IF i = Len(fmt_str) THEN NUL
  ELSE g

MX_DIGITS == 3

RECURSIVE NumDigits(_, _, _, _)
\* the loop of get_number: how many characters it consumes from idx on
NumDigits(fmt_str, idx, number_i, g) ==
  IF number_i < MX_DIGITS /\ is_number(CharAt(fmt_str, idx, g))
  THEN NumDigits(fmt_str, idx + 1, number_i + 1, g)
  ELSE number_i

RECURSIVE Stoi(_, _, _, _, _)
\* std::stoi of the digits fmt_str[idx .. idx + n), acc the value so far
Stoi(fmt_str, idx, n, acc, g) ==
  IF n = 0 THEN acc
  ELSE Stoi(fmt_str, idx + 1, n - 1, 10 * acc + DigitVal(CharAt(fmt_str, idx, g)), g)

\* FormatStringObject::get_number: the number and the index after it
\* (number[] starts as "0", so no digit at all reads as 0)
get_number(fmt_str, fmt_str_idx, g) ==
  LET n == NumDigits(fmt_str, fmt_str_idx, 0, g)
  IN [val |-> Stoi(fmt_str, fmt_str_idx, n, 0, g), idx |-> fmt_str_idx + n]

TypeChars == {INT, FLOAT, HEX, STRING_SPEC, OBJECT, CHAR, BOOL}

\* F of the value of e: e is evaluated once, however often F uses it
With(e, F(_)) == CHOOSE r \in {F(x) : x \in {e}} : TRUE

\* the optional "c>" of a directive at i: the pad character and the index after
LeftPad(fmt_str, i, g) ==
  IF CharAt(fmt_str, i + 1, g) = PAD_LEFT
  THEN [chr |-> CharAt(fmt_str, i, g), idx |-> i + 2]
  ELSE [chr |-> NUL, idx |-> i]

\* the optional ".n" of a directive at i: n and the index after
Decimals(fmt_str, i, g) ==
  IF CharAt(fmt_str, i, g) = DECIMAL_PLACES THEN get_number(fmt_str, i + 1, g)
  ELSE [val |-> 0, idx |-> i]

\* the optional "<c" of a directive at i: the pad character and the index after
RightPad(fmt_str, i, g) ==
  IF CharAt(fmt_str, i, g) = PAD_RIGHT
  THEN [chr |-> CharAt(fmt_str, i + 1, g), idx |-> i + 2]
  ELSE [chr |-> NUL, idx |-> i]

\* the body of the for loop of Logger::_parse_format_string at an OPEN at index
\* i: the directive, the index of its CLOSE, and err: "none", "unknown" (the
\* switch's default: message and std::exit(1)) or "close" (the assert, then
\* message and std::exit(1)) with chr the offending character
ParseDirective(fmt_str, i, g) ==
  With(LeftPad(fmt_str, i + 1, g), LAMBDA left :
  With(get_number(fmt_str, left.idx, g), LAMBDA len :
  With(Decimals(fmt_str, len.idx, g), LAMBDA dec :
  With(RightPad(fmt_str, dec.idx + 1, g), LAMBDA right :
    LET typ == CharAt(fmt_str, dec.idx, g)
        obj == [type |-> typ, left_pad_chr |-> left.chr,
                right_pad_chr |-> right.chr, mx_len |-> len.val,
                mx_decimal_places |-> dec.val,
                start_idx |-> i, end_idx |-> right.idx + 1]
    IN IF typ \notin TypeChars
       THEN [err |-> "unknown", chr |-> typ, obj |-> obj, idx |-> right.idx]
       ELSE IF CharAt(fmt_str, right.idx, g) # CLOSE
       THEN [err |-> "close", chr |-> CharAt(fmt_str, right.idx, g), obj |-> obj,
             idx |-> right.idx]
       ELSE [err |-> "none", chr |-> NUL, obj |-> obj, idx |-> right.idx]))))

RECURSIVE ParseLoop(_, _, _, _)
\* the for loop of Logger::_parse_format_string from index i on, with the
\* directives found so far
ParseLoop(fmt_str, i, fmt_objs, g) ==
  IF i >= Len(fmt_str) THEN [err |-> "none", chr |-> NUL, objs |-> fmt_objs]
  ELSE IF CharAt(fmt_str, i, g) # OPEN THEN ParseLoop(fmt_str, i + 1, fmt_objs, g)
  ELSE With(ParseDirective(fmt_str, i, g), LAMBDA d :
         IF d.err # "none" THEN [err |-> d.err, chr |-> d.chr, objs |-> fmt_objs]
         ELSE ParseLoop(fmt_str, d.idx, Append(fmt_objs, d.obj), g))

\* Logger::_parse_format_string
parse_format_string(fmt_str, g) == ParseLoop(fmt_str, 0, <<>>, g)

\* ------------------------------------------------------------ PaddingEngine
\* the first n characters of s
Prefix(s, n) == SubSeq(s, 1, n)

\* pad_fmt_arg with the truncation loop running one character too far
pad_fmt_arg_long_cut(arg, fmt_obj) ==
  LET str_len == Len(arg)
      mx_len == fmt_obj.mx_len
      mx_padding == mx_len - str_len
      half_right == mx_padding \div 2
      half_left == mx_padding - half_right
      mx_left_padding == IF mx_padding > 0 /\ fmt_obj.right_pad_chr # NUL
                         THEN half_left ELSE mx_padding
      mx_right_padding == IF mx_padding > 0 /\ fmt_obj.left_pad_chr # NUL
                          THEN half_right ELSE mx_padding
  IN IF mx_len = 0 THEN arg
     ELSE IF mx_len < str_len THEN Prefix(arg, mx_len + 1)
     ELSE (IF fmt_obj.left_pad_chr # NUL
           THEN pad(mx_left_padding, fmt_obj.left_pad_chr) ELSE <<>>)
          \o arg
          \o (IF fmt_obj.right_pad_chr # NUL
              THEN pad(mx_right_padding, fmt_obj.right_pad_chr) ELSE <<>>)

\* pad_fmt_arg with the odd character of the padding given to the right
pad_fmt_arg_right_first(arg, fmt_obj) ==
  LET str_len == Len(arg)
      mx_len == fmt_obj.mx_len
      mx_padding == mx_len - str_len
      half_left == mx_padding \div 2
      half_right == mx_padding - half_left
      mx_left_padding == IF mx_padding > 0 /\ fmt_obj.right_pad_chr # NUL
                         THEN half_left ELSE mx_padding
      mx_right_padding == IF mx_padding > 0 /\ fmt_obj.left_pad_chr # NUL
                          THEN half_right ELSE mx_padding
  IN IF mx_len = 0 THEN arg
     ELSE IF mx_len < str_len THEN Prefix(arg, mx_len)
     ELSE (IF fmt_obj.left_pad_chr # NUL
           THEN pad(mx_left_padding, fmt_obj.left_pad_chr) ELSE <<>>)
          \o arg
          \o (IF fmt_obj.right_pad_chr # NUL
              THEN pad(mx_right_padding, fmt_obj.right_pad_chr) ELSE <<>>)

\* pad_fmt_arg without the test of mx_len against 0
pad_fmt_arg_no_zero_test(arg, fmt_obj) ==
  LET str_len == Len(arg)
      mx_len == fmt_obj.mx_len
      mx_padding == mx_len - str_len
      half_right == mx_padding \div 2
      half_left == mx_padding - half_right
      mx_left_padding == IF mx_padding > 0 /\ fmt_obj.right_pad_chr # NUL
                         THEN half_left ELSE mx_padding
      mx_right_padding == IF mx_padding > 0 /\ fmt_obj.left_pad_chr # NUL
                          THEN half_right ELSE mx_padding
  IN IF mx_len < str_len THEN Prefix(arg, mx_len)
     ELSE (IF fmt_obj.left_pad_chr # NUL
           THEN pad(mx_left_padding, fmt_obj.left_pad_chr) ELSE <<>>)
          \o arg
          \o (IF fmt_obj.right_pad_chr # NUL
              THEN pad(mx_right_padding, fmt_obj.right_pad_chr) ELSE <<>>)

\* Logger::_pad_fmt_arg: what it inserts into the stream for arg under fmt_obj
pad_fmt_arg(arg, fmt_obj) ==
  LET str_len == Len(arg)
      mx_len == fmt_obj.mx_len
  IN IF mx_len # 0
     THEN IF mx_len < str_len
          THEN Prefix(arg, mx_len)
          ELSE LET mx_padding == mx_len - str_len
                   half_right == mx_padding \div 2
                   half_left == mx_padding - half_right
                   mx_left_padding ==
                     IF mx_padding > 0 /\ fmt_obj.right_pad_chr # NUL
                     THEN half_left ELSE mx_padding
                   mx_right_padding ==
                     IF mx_padding > 0 /\ fmt_obj.left_pad_chr # NUL
                     THEN half_right ELSE mx_padding
               IN (IF fmt_obj.left_pad_chr # NUL
                   THEN pad(mx_left_padding, fmt_obj.left_pad_chr) ELSE <<>>)
                  \o arg
                  \o (IF fmt_obj.right_pad_chr # NUL
                      THEN pad(mx_right_padding, fmt_obj.right_pad_chr) ELSE <<>>)
     ELSE arg

\* ------------------------------------------------------------ ValueRenderer
\* std::string::npos is 2^64 - 1, and size_t arithmetic is modulo 2^64: npos
\* is kept as the congruent -1, so that Len - npos - 1 and npos + 1 + n, which
\* both wrap once in the code, come out as the values the code computes
npos == -1

HexChars == <<"0", "1", "2", "3", "4", "5", "6", "7", "8", "9",
              "a", "b", "c", "d", "e", "f">>

RECURSIVE IntToText(_, _)
\* operator<< of a non-negative integer in base 10 or, under std::hex, 16
IntToText(n, base) ==
  IF n < base THEN <<HexChars[n + 1]>>
  ELSE IntToText(n \div base, base) \o <<HexChars[(n % base) + 1]>>

\* the number of decimal digits of n > 0
RECURSIVE NumLen(_)
NumLen(n) == IF n < 10 THEN 1 ELSE 1 + NumLen(n \div 10)

\* n without its trailing zeros
RECURSIVE StripZeros(_)
StripZeros(n) == IF n > 0 /\ n % 10 = 0 THEN StripZeros(n \div 10) ELSE n

\* count copies of "0"
Zeros(count) == [k \in 1..count |-> "0"]

\* the precision of a std::ostringstream that was given none
DefaultPrecision == 6

\* operator<< of the double m * 10^(-s), m > 0, on a stream in its default
\* state (the %g conversion with precision 6): the value rounded to 6
\* significant digits, trailing zeros removed, in exponent notation when the
\* decimal exponent is below -4 or at least 6.  A 7th digit of exactly 5
\* followed by nothing is rounded up here.
DoubleText(m, s) ==
  With(NumLen(m), LAMBDA d :
  With(IF d > DefaultPrecision
       THEN (m + 5 * 10^(d - DefaultPrecision - 1)) \div 10^(d - DefaultPrecision)
       ELSE m, LAMBDA rounded :
  With(IF NumLen(rounded) > DefaultPrecision THEN d - s ELSE d - 1 - s, LAMBDA X :
  With(IntToText(StripZeros(rounded), 10), LAMBDA digits :
    IF X < -4 \/ X >= DefaultPrecision
    THEN <<Head(digits)>>
         \o (IF Len(digits) > 1 THEN <<".">> \o Tail(digits) ELSE <<>>)
         \o <<"e", IF X < 0 THEN "-" ELSE "+">>
         \o (IF (IF X < 0 THEN -X ELSE X) < 10 THEN <<"0">> ELSE <<>>)
         \o IntToText(IF X < 0 THEN -X ELSE X, 10)
    ELSE IF X < 0
    THEN <<"0", ".">> \o Zeros(-X - 1) \o digits
    ELSE IF X >= Len(digits) - 1
    THEN digits \o Zeros(X - (Len(digits) - 1))
    ELSE SubSeq(digits, 1, X + 1) \o <<".">> \o SubSeq(digits, X + 2, Len(digits))))))

\* the logged values: kind, val (the number of an int, 1/0 of a bool) and
\* text (what operator<< prints for a string, a char or a floating point number)
IntArg(n) == [kind |-> "int", val |-> n, text |-> <<>>]
StrArg(s) == [kind |-> "str", val |-> 0, text |-> s]
FloatArg(s) == [kind |-> "float", val |-> 0, text |-> s]
BoolArg(b) == [kind |-> "bool", val |-> IF b THEN 1 ELSE 0, text |-> <<>>]

\* tmp << _arg, after tmp << std::hex for a HEX directive
ArgText(arg, type) ==
  CASE arg.kind = "int" -> IntToText(arg.val, IF type = HEX THEN 16 ELSE 10)
    [] arg.kind = "bool" -> IntToText(arg.val, 10)
    [] OTHER -> arg.text

\* arg.find('.')
FindDot(arg) ==
  IF \E k \in 1..Len(arg) : arg[k] = "."
  THEN (CHOOSE k \in 1..Len(arg) : arg[k] = "." /\ \A j \in 1..(k - 1) : arg[j] # ".") - 1
  ELSE npos

\* arg.substr(0, count)
Substr0(arg, count) == IF count >= Len(arg) THEN arg ELSE Prefix(arg, count)

\* Literal copying one character more, the '{' of the directive that follows
Literal_with_open(fmt_str, start_idx, end_idx) ==
  [k \in 1..(IF end_idx >= start_idx THEN end_idx - start_idx + 1 ELSE 0) |->
     CharAt(fmt_str, start_idx + k - 1, NUL)]

\* the characters fmt_str[start_idx .. end_idx) copied into the stream
Literal(fmt_str, start_idx, end_idx) ==
  [k \in 1..(IF end_idx > start_idx THEN end_idx - start_idx ELSE 0) |->
     CharAt(fmt_str, start_idx + k - 1, NUL)]

\* Logger::_log_fmt_arg: the literal before the directive, then the argument
\* converted and padded; abort when the FLOAT assert fires in a build with
\* asserts (ndebug = FALSE)
log_fmt_arg(_arg, log_fmt, start_idx, end_idx, fmt_obj, ndebug) ==
  With(ArgText(_arg, fmt_obj.type), LAMBDA arg :
    LET lit == Literal(log_fmt, start_idx, end_idx)
        dot_idx == FindDot(arg)
        n_decimal_places == Len(arg) - dot_idx - 1
        cut == IF n_decimal_places > fmt_obj.mx_decimal_places
               THEN Substr0(arg, dot_idx + 1 + fmt_obj.mx_decimal_places)
               ELSE arg
        bool_val == IF arg = <<"1">> THEN <<"t", "r", "u", "e">>
                    ELSE <<"f", "a", "l", "s", "e">>
    IN CASE fmt_obj.type = FLOAT ->
              IF dot_idx = npos /\ ~ndebug
              THEN [abort |-> TRUE, text |-> lit]
              ELSE [abort |-> FALSE, text |-> lit \o pad_fmt_arg(cut, fmt_obj)]
         [] fmt_obj.type = BOOL ->
              [abort |-> FALSE, text |-> lit \o pad_fmt_arg(bool_val, fmt_obj)]
         [] fmt_obj.type \in {INT, HEX, STRING_SPEC, OBJECT, CHAR} ->
              [abort |-> FALSE, text |-> lit \o pad_fmt_arg(arg, fmt_obj)]
         [] OTHER ->
              [abort |-> FALSE,
               text |-> lit \o <<"U", "n", "k", "n", "o", "w", "n", " ", "t", "y", "p", "e">>])

\* fmt_objs[obj_idx]; an index outside the vector reads whatever lies there (garb)
ObjAt(fmt_objs, obj_idx, garb) ==
  IF obj_idx < Len(fmt_objs) THEN fmt_objs[obj_idx + 1] ELSE garb

RECURSIVE log_format_string_args(_, _, _, _, _, _, _, _)
\* Logger::_log_format_string_args, both overloads: the text put into
\* fmt_stream, the indices used on fmt_objs (used), and abort as in log_fmt_arg
log_format_string_args(fmt_objs, fmt_str, start_idx, end_idx, obj_idx, args, garb, ndebug) ==
  IF Len(args) = 0
  THEN [abort |-> FALSE, text |-> Literal(fmt_str, start_idx, end_idx), used |-> {}]
  ELSE
    With(ObjAt(fmt_objs, obj_idx, garb), LAMBDA obj :
    With(log_fmt_arg(Head(args), fmt_str, start_idx, end_idx, obj, ndebug),
         LAMBDA first :
      IF first.abort
      THEN [abort |-> TRUE, text |-> first.text, used |-> {obj_idx}]
      ELSE IF obj_idx + 1 >= Len(fmt_objs)
      THEN With(log_format_string_args(fmt_objs, fmt_str, obj.end_idx,
                  Len(fmt_str), obj_idx, Tail(args), garb, ndebug),
                LAMBDA rest :
             [abort |-> rest.abort, text |-> first.text \o rest.text,
              used |-> {obj_idx} \cup rest.used])
      ELSE With(log_format_string_args(fmt_objs, fmt_str, obj.end_idx,
                  ObjAt(fmt_objs, obj_idx + 1, garb).start_idx, obj_idx + 1,
                  Tail(args), garb, ndebug),
                LAMBDA rest :
             [abort |-> rest.abort, text |-> first.text \o rest.text,
              used |-> {obj_idx, obj_idx + 1} \cup rest.used])))

\* the body of a template logging function up to its lock: the template
\* parsed, then the arguments rendered into fmt_stream.  err as the parser
\* gives it, abort and text as _log_format_string_args gives them
format_string(fmt_str, args, g, garb, ndebug) ==
  With(parse_format_string(fmt_str, g), LAMBDA parsed :
    IF parsed.err # "none"
    THEN [err |-> parsed.err, abort |-> FALSE, text |-> <<>>, objs |-> parsed.objs]
    ELSE With(log_format_string_args(parsed.objs, fmt_str, 0,
                ObjAt(parsed.objs, 0, garb).start_idx, 0, args, garb, ndebug),
              LAMBDA r :
           [err |-> "none", abort |-> r.abort, text |-> r.text,
            objs |-> parsed.objs]))

\* ------------------------------------------------------------------ LogImpl
\* a piece of a line: one run of consecutive insertions into the stream
Piece(kind, txt) == [kind |-> kind, txt |-> txt]

\* the colour escape LogImpl::parse_fmt_opts writes first, if any
ColourOf(fmt) ==
  IF BitAnd(fmt, HIGHLIGHT_GREEN) # 0 THEN <<Piece("colour", "green")>>
  ELSE IF BitAnd(fmt, HIGHLIGHT_YELLOW) # 0 THEN <<Piece("colour", "yellow")>>
  ELSE IF BitAnd(fmt, HIGHLIGHT_RED) # 0 THEN <<Piece("colour", "red")>>
  ELSE IF BitAnd(fmt, HIGHLIGHT_DEF) # 0 THEN <<Piece("colour", "default")>>
  ELSE <<>>

VARIABLES
  now,              \* the system clock, std::time(nullptr), in seconds
  start_time        \* LogImpl::start_time

time_vars == <<now, start_time>>

SecondsPerDay == 86400
\* std::strftime(time_str, sizeof(time_str), "%T", std::localtime(&t)): the
\* hour, minute and second of the day (local time taken as UTC)
strftime_T(t) ==
  [hh |-> (t % SecondsPerDay) \div 3600, mm |-> (t % 3600) \div 60, ss |-> t % 60]

\* LogImpl::parse_fmt_opts(stream, t, fmt, type_size): the pieces it writes,
\* in order, as three runs of insertions: those before stream << t, stream << t
\* itself, and those after it; t_text the text of t, t_sizeof its sizeof
parse_fmt_opts(t_text, t_sizeof, fmt, type_size) ==
  LET log_name == BitAnd(fmt, NAME) # 0
      log_timestamp == BitAnd(fmt, TIMESTAMP) # 0
      time_str == strftime_T(start_time)
  IN << ColourOf(fmt)
        \o (IF log_name /\ log_timestamp
            THEN <<Piece("prefix", "[name, "), Piece("time", time_str),
                   Piece("prefix", "] ")>>
            ELSE (IF log_name THEN <<Piece("prefix", "[name] ")>> ELSE <<>>)
                 \o (IF log_timestamp
                     THEN <<Piece("prefix", "["), Piece("time", time_str),
                            Piece("prefix", "] ")>>
                     ELSE <<>>)),
        <<Piece("payload", t_text)>>,
        (IF BitAnd(fmt, TYPE_SIZE) # 0
         THEN <<Piece("size", IF type_size # 0 THEN type_size ELSE t_sizeof)>>
         ELSE <<>>)
        \o <<Piece("reset", "default")>>
        \o (IF BitAnd(fmt, NEWLINE) # 0 THEN <<Piece("newline", "\n")>> ELSE <<>>) >>

\* ------------------------------------------------------------------- Logger
\* Logger::_default_err_fmt
default_err_fmt == BitOr(BitOr(HIGHLIGHT_RED, TIMESTAMP), NEWLINE)
\* Logger::_default_warn_fmt
default_warn_fmt == BitOr(BitOr(HIGHLIGHT_YELLOW, TIMESTAMP), NEWLINE)
\* Logger::_default_info_fmt
default_info_fmt == BitOr(BitOr(HIGHLIGHT_GREEN, TIMESTAMP), NEWLINE)
\* Logger::_default_debug_fmt
default_debug_fmt ==
  BitOr(BitOr(HIGHLIGHT_DEF, TIMESTAMP), BitOr(NO_SIZE_LIMIT, NEWLINE))

Severities == {"error", "warn", "info", "debug"}

\* the default format each logging function ORs into fmt
default_fmt(sev) ==
  CASE sev = "error" -> default_err_fmt
    [] sev = "warn" -> default_warn_fmt
    [] sev = "info" -> default_info_fmt
    [] sev = "debug" -> default_debug_fmt

\* the early return at the top of a logging function
EarlyReturn(sev, output_lvl) ==
  IF sev = "debug" THEN output_lvl # DEBUG \/ output_lvl = QUIET
  ELSE output_lvl = QUIET

\* ------------------------------------------------------- enumerated inputs
\* flags a caller passes, and formats set_log_format sets
FlagChoices == {BitOr(HIGHLIGHT_GREEN, TYPE_SIZE)}
\* the value of the single-value calls, an int
LogValue == IntArg(42)
SizeofInt == 4
SizeofPtr == 8
\* sizeof of a std::vector, of a std::array of no elements, of a std::map and
\* of a std::unordered_map (libstdc++, 64 bit), of the element type of the
\* sequences, and of the key and value types of the maps
SizeofVector == 24
SizeofEmptyArray == 1
SizeofMap == 48
SizeofUnorderedMap == 56
SizeofElement == 4
SizeofKey == 4
SizeofValue == 8
\* LogImpl::CPPLOG_MX_ELS
CPPLOG_MX_ELS == 10
\* "a{d}b"
T_one == <<"a", "{", "d", "}", "b">>
\* "{d}-{_>4s<#}!"
T_two == <<"{", "d", "}", "-", "{", "_", ">", "4", "s", "<", "#", "}", "!">>
\* "hi"
T_none == <<"h", "i">>
\* "{q}"
T_unknown == <<"{", "q", "}">>
\* "{d<#!"
T_unclosed == <<"{", "d", "<", "#", "!">>
\* the arguments of a template call are the first n of these
ArgList == <<IntArg(7), StrArg(<<"a", "b">>), IntArg(255)>>
\* the template calls made: severity, whether flags are passed, template and
\* number of arguments.  Every logging function is called on "a{d}b"; the
\* other templates go through error(fmt_str, args...), and the unknown
\* specifier also through debug(fmt_str, fmt, first, args...)
TemplateCalls ==
  (Severities \X BOOLEAN \X {T_one} \X {1})
  \cup ({"error"} \X {FALSE} \X {T_two} \X {1, 2, 3})
  \cup ({"error"} \X {FALSE} \X {T_none, T_unknown, T_unclosed} \X {1})
  \cup ({"debug"} \X {TRUE} \X {T_unknown} \X {1})
\* what a read past the terminating NUL of a template may find
GarbageChars == {NUL, CLOSE}
\* what a read outside the directive vector may find
GarbageObjs == {FormatStringObject, [FormatStringObject EXCEPT !.type = INT, !.end_idx = 1]}
Streams == {"cerr", "file"}

VARIABLES
  log_lvl,          \* Logger::_log_lvl
  log_format,       \* Logger::_log_format
  log_output_lvl,   \* Logger::_log_output_lvl
  stream,           \* Logger::_stream
  mutex,            \* Logger::_mutex of each Logger: "free" or the thread holding it
  logger_of,        \* the Logger object each thread logs through
  NDEBUG,           \* whether the build compiles assert() away
  out,              \* what each stream has received, piece by piece
  failbit,          \* whether each stream's failbit is set
  terminated,       \* "no", or how the process ended: "exit", "abort", "segv"
  pc,               \* where each thread is in its logging call
  call,             \* each thread's current (or last) logging call
  fr,               \* each thread's locals in that call
  ncalls,           \* logging calls issued so far
  nsets,            \* setter calls issued so far
  fn_in,            \* the input of a function applied on its own
  fn_out            \* and its result

vars == <<now, start_time, log_lvl, log_format, log_output_lvl, stream, mutex, logger_of,
          NDEBUG, out, failbit, terminated, pc, call, fr, ncalls, nsets, fn_in, fn_out>>

config_vars == <<log_lvl, log_format, log_output_lvl, stream>>
fn_vars == <<fn_in, fn_out>>

NoCall == [sev |-> "none", shape |-> "none", has_fmt |-> FALSE, fmt |-> 0,
           fmt_str |-> <<>>, args |-> <<>>]
\* the locals of a call: id numbers the call; at is the clock when the call
\* was made; fmt is the LogFormat parameter
\* of the active frame; depth the frames of the same function on the stack;
\* objs the parsed directives; payload the contents of fmt_stream; todo the
\* pieces still to be written; how the way the process ends after an error;
\* parsed, locks and used record that the parser ran, how often the mutex
\* was acquired and which indices were used on objs
NoFrame == [id |-> 0, at |-> 0, fmt |-> 0, depth |-> 0, objs |-> <<>>, payload |-> <<>>,
            todo |-> <<>>, how |-> "none", parsed |-> FALSE, locks |-> 0,
            used |-> {}]

NoInput == [fn |-> "none"]
NoOutput == [done |-> FALSE, val |-> <<>>]

\* Logger::Logger() sets _log_lvl, _log_format and _stream and leaves
\* _log_output_lvl uninitialised
DefaultCtor ==
  /\ log_lvl = STANDARD
  /\ log_format = STANDARD
  /\ log_output_lvl \in {QUIET, DEFAULT, DEBUG, GARBAGE}
  /\ stream = "cerr"
  /\ mutex = [l \in Loggers |-> "free"]

\* Logger::Logger(name, lvl, fmt, output_lvl, log_impl, stream) sets
\* _log_output_lvl and _stream, and sets _log_lvl and _log_format to STANDARD
FullCtor ==
  /\ log_lvl = STANDARD
  /\ log_format = STANDARD
  /\ log_output_lvl \in {QUIET, DEFAULT, DEBUG}
  /\ stream \in Streams
  /\ mutex = [l \in Loggers |-> "free"]

LoggerInit == DefaultCtor \/ FullCtor

\* every thread logs through the same Logger
OneLogger == logger_of = [t \in Threads |-> "logger"]
\* every thread but the first logs through a Logger of its own, constructed
\* like the first and writing to the same stream
TwoLoggers == logger_of = [t \in Threads |-> IF t = FirstThread THEN "logger" ELSE "logger2"]

\* the rest of the program when the Logger has been constructed
ProgramInit ==
  /\ NDEBUG \in BOOLEAN
  /\ out = [s \in Streams |-> <<>>]
  /\ failbit = [s \in Streams |-> FALSE]
  /\ now = 0
  /\ start_time = now
  /\ terminated = "no"
  /\ pc = [t \in Threads |-> "idle"]
  /\ call = [t \in Threads |-> NoCall]
  /\ fr = [t \in Threads |-> NoFrame]
  /\ ncalls = 0
  /\ nsets = 0
  /\ fn_in = NoInput
  /\ fn_out = NoOutput

Init == LoggerInit /\ OneLogger /\ ProgramInit

\* a thread enters a logging function: its call and a fresh frame
Enter(t, c, f, next) ==
  /\ terminated = "no"
  /\ pc[t] = "idle"
  /\ ncalls < MaxCalls
  /\ ncalls = 0 => t = FirstThread
  /\ ncalls' = ncalls + 1
  /\ call' = [call EXCEPT ![t] = c]
  /\ fr' = [fr EXCEPT ![t] = [NoFrame EXCEPT !.id = ncalls + 1, !.at = now, !.fmt = f,
                                              !.depth = 1]]
  /\ pc' = [pc EXCEPT ![t] = next]
  /\ UNCHANGED <<config_vars, mutex, NDEBUG, time_vars, logger_of, out, failbit, terminated, nsets, fn_vars>>

ValueCallOf(sev, has_fmt, fmt) ==
  [sev |-> sev, shape |-> "value", has_fmt |-> has_fmt, fmt |-> fmt,
   fmt_str |-> <<>>, args |-> <<LogValue>>]

TemplateCallOf(sev, has_fmt, fmt, fmt_str, n) ==
  [sev |-> sev, shape |-> "template", has_fmt |-> has_fmt, fmt |-> fmt,
   fmt_str |-> fmt_str, args |-> SubSeq(ArgList, 1, n)]

\* Logger::error / info / debug (const T &t, LogFormat fmt), up to the lock
ValueFmt(t, sev, fmt) ==
  /\ sev \in {"error", "info", "debug"}
  /\ Enter(t, ValueCallOf(sev, TRUE, fmt), fmt,
           IF EarlyReturn(sev, log_output_lvl) THEN "idle" ELSE "lock")

\* the flag-less call taking the flags the call before it passed
Value_with_last_flags(t, sev) ==
  /\ sev \in {"error", "info", "debug"}
  /\ Enter(t, ValueCallOf(sev, FALSE, 0),
           IF call[t].has_fmt THEN call[t].fmt ELSE log_format,
           IF EarlyReturn(sev, log_output_lvl) THEN "idle" ELSE "lock")

\* Logger::error / info / debug (const T &t): calls the above with _log_format
Value(t, sev) ==
  /\ sev \in {"error", "info", "debug"}
  /\ Enter(t, ValueCallOf(sev, FALSE, 0), log_format,
           IF EarlyReturn(sev, log_output_lvl) THEN "idle" ELSE "lock")

\* Logger::warn(const T &t, LogFormat fmt): its body is warn(t, _log_format)
WarnValueFmt(t, fmt) ==
  Enter(t, ValueCallOf("warn", TRUE, fmt), fmt, "warn")

\* Logger::warn(const T &t), up to the lock
WarnValue(t) ==
  Enter(t, ValueCallOf("warn", FALSE, 0), log_format,
        IF EarlyReturn("warn", log_output_lvl) THEN "idle" ELSE "lock")

\* Logger::error / warn / info / debug
\* (const char *fmt_str, LogFormat fmt, T &&first, Tr&&... args), up to the parse
TemplateFmt(t, sev, fmt, fmt_str, n) ==
  Enter(t, TemplateCallOf(sev, TRUE, fmt, fmt_str, n), fmt,
        IF EarlyReturn(sev, log_output_lvl) THEN "idle" ELSE "parse")

\* Logger::error / warn / info / debug (const char *fmt_str, T&&... args):
\* calls the above with _log_format
Template(t, sev, fmt_str, n) ==
  Enter(t, TemplateCallOf(sev, FALSE, 0, fmt_str, n), log_format,
        IF EarlyReturn(sev, log_output_lvl) THEN "idle" ELSE "parse")

\* warn(t, fmt) calling itself with a new frame
WarnRecurse(t) ==
  /\ terminated = "no"
  /\ pc[t] = "warn"
  /\ fr[t].depth < MaxStack
  /\ fr' = [fr EXCEPT ![t].depth = @ + 1, ![t].fmt = log_format]
  /\ UNCHANGED <<config_vars, mutex, NDEBUG, time_vars, logger_of, out, failbit, terminated, pc, call, ncalls,
                 nsets, fn_vars>>

\* warn(t, fmt) calling itself where the compiler made the call a jump
WarnSpin(t) ==
  /\ terminated = "no"
  /\ pc[t] = "warn"
  /\ fr' = [fr EXCEPT ![t].fmt = log_format]
  /\ UNCHANGED <<config_vars, mutex, NDEBUG, time_vars, logger_of, out, failbit, terminated, pc, call, ncalls,
                 nsets, fn_vars>>

\* warn(t, fmt) calling itself with no stack left
WarnOverflow(t) ==
  /\ terminated = "no"
  /\ pc[t] = "warn"
  /\ fr[t].depth >= MaxStack
  /\ terminated' = "segv"
  /\ UNCHANGED <<config_vars, mutex, NDEBUG, time_vars, logger_of, out, failbit, pc, call, fr, ncalls, nsets,
                 fn_vars>>

\* a run of insertions as a stream holds it: with the call it belongs to and
\* the format the line is decorated with
Chunk(id, fmt, pieces) == [id |-> id, fmt |-> fmt, txt |-> pieces]

Chunks(id, fmt, runs) == [k \in 1..Len(runs) |-> Chunk(id, fmt, runs[k])]

\* the messages _parse_format_string writes to std::cerr, one statement each
UnknownMsg(chr) ==
  <<Piece("err", "Error: Unknown format specifier '"), Piece("err", chr),
    Piece("err", "'\n")>>
ExpectedMsg(chr) ==
  <<Piece("err", "Error: Expected '"), Piece("err", CLOSE),
    Piece("err", "', found '"), Piece("err", chr), Piece("err", "'!\n")>>
\* the message of a failed assert
AssertMsg == <<Piece("err", "Assertion failed")>>

\* objs = _parse_format_string(fmt_str), with its error paths
Parse(t) ==
  /\ terminated = "no"
  /\ pc[t] = "parse"
  /\ \E g \in GarbageChars :
       LET r == parse_format_string(call[t].fmt_str, g)
           msg == CASE r.err = "none" -> <<>>
                    [] r.err = "unknown" -> <<UnknownMsg(r.chr)>>
                    [] r.err = "close" ->
                         IF NDEBUG THEN <<ExpectedMsg(r.chr)>> ELSE <<AssertMsg>>
           how == CASE r.err = "none" -> "none"
                    [] r.err = "unknown" -> "exit"
                    [] r.err = "close" -> IF NDEBUG THEN "exit" ELSE "abort"
       IN /\ fr' = [fr EXCEPT ![t].parsed = TRUE, ![t].objs = r.objs,
                              ![t].todo = Chunks(fr[t].id, 0, msg), ![t].how = how]
          /\ pc' = [pc EXCEPT ![t] = IF r.err = "none" THEN "render" ELSE "err"]
  /\ UNCHANGED <<config_vars, mutex, NDEBUG, time_vars, logger_of, out, failbit, terminated, call, ncalls, nsets,
                 fn_vars>>

\* the insertions of one run into a stream: nothing is inserted into a
\* stream whose failbit is set, and inserting a stream buffer that holds no
\* characters inserts nothing and sets the failbit
Insert(run, is_buf, bad) ==
  IF bad THEN [put |-> FALSE, bad |-> TRUE]
  ELSE IF is_buf /\ Len(run) = 1 /\ run[1].kind = "payload" /\ run[1].txt = <<>>
       THEN [put |-> FALSE, bad |-> TRUE]
       ELSE [put |-> TRUE, bad |-> FALSE]

\* the error message goes to std::cerr, with no lock held; the message of a
\* failed assert goes to stderr, which has no failbit
ErrWrite(t) ==
  /\ terminated = "no"
  /\ pc[t] = "err"
  /\ fr[t].todo # <<>>
  /\ \E r \in {Insert(Head(fr[t].todo).txt, FALSE,
                       failbit["cerr"] /\ fr[t].how # "abort")} :
       /\ out' = IF r.put THEN [out EXCEPT !["cerr"] = Append(@, Head(fr[t].todo))]
                 ELSE out
       /\ UNCHANGED failbit
  /\ fr' = [fr EXCEPT ![t].todo = Tail(@)]
  /\ UNCHANGED <<config_vars, mutex, NDEBUG, time_vars, logger_of, terminated, pc, call, ncalls, nsets,
                 fn_vars>>

\* std::exit(1) after the message, or abort() after a failed assert
Exit(t) ==
  /\ terminated = "no"
  /\ pc[t] = "err"
  /\ fr[t].todo = <<>>
  /\ terminated' = fr[t].how
  /\ UNCHANGED <<config_vars, mutex, NDEBUG, time_vars, logger_of, out, failbit, pc, call, fr, ncalls, nsets,
                 fn_vars>>

\* _log_format_string_args(fmt_stream, objs, fmt_str, 0,
\*                         objs.front().start_idx, 0, first, args...)
Render(t) ==
  /\ terminated = "no"
  /\ pc[t] = "render"
  /\ \E garb \in IF Len(fr[t].objs) = 0 THEN GarbageObjs ELSE {FormatStringObject} :
       LET objs == fr[t].objs
           front == ObjAt(objs, 0, garb)
           r == log_format_string_args(objs, call[t].fmt_str, 0, front.start_idx,
                                       0, call[t].args, garb, NDEBUG)
       IN /\ fr' = [fr EXCEPT ![t].used = {0} \cup r.used,
                              ![t].payload = r.text,
                              ![t].todo = IF r.abort THEN Chunks(fr[t].id, 0, <<AssertMsg>>)
                                          ELSE <<>>,
                              ![t].how = IF r.abort THEN "abort" ELSE "none"]
          /\ pc' = [pc EXCEPT ![t] = IF r.abort THEN "err" ELSE "lock"]
  /\ UNCHANGED <<config_vars, mutex, NDEBUG, time_vars, logger_of, out, failbit, terminated, call, ncalls, nsets,
                 fn_vars>>

\* objs.front() and fmt_objs[0] on an empty vector, where the read faults
RenderFault(t) ==
  /\ terminated = "no"
  /\ pc[t] = "render"
  /\ Len(fr[t].objs) = 0
  /\ fr' = [fr EXCEPT ![t].used = {0}]
  /\ terminated' = "segv"
  /\ UNCHANGED <<config_vars, mutex, NDEBUG, time_vars, logger_of, out, failbit, pc, call, ncalls, nsets, fn_vars>>

\* the format a call passes to LogImpl: fmt | _default_<sev>_fmt, and
\* _log_format | _default_warn_fmt in warn(const T &t)
PassedFmt(t) ==
  BitOr(IF call[t].sev = "warn" /\ call[t].shape = "value" THEN log_format
        ELSE fr[t].fmt,
        default_fmt(call[t].sev))

\* std::lock_guard<std::mutex> lock(_mutex), and what the LogImpl call that
\* follows will write: LogImpl::log(stream, int, fmt) for a value,
\* parse_fmt_opts(stream, fmt_stream.rdbuf(), fmt) for a template
Lock(t) ==
  /\ terminated = "no"
  /\ pc[t] = "lock"
  /\ mutex[logger_of[t]] = "free"
  /\ mutex' = [mutex EXCEPT ![logger_of[t]] = t]
  /\ \E fmt \in {PassedFmt(t)} :
       \E runs \in {IF call[t].shape = "value"
                    THEN parse_fmt_opts(ArgText(call[t].args[1], INT), SizeofInt, fmt, 0)
                    ELSE parse_fmt_opts(fr[t].payload, SizeofPtr, fmt, 0)} :
         fr' = [fr EXCEPT ![t].locks = @ + 1,
                          ![t].todo = Chunks(fr[t].id, fmt, runs)]
  /\ pc' = [pc EXCEPT ![t] = "write"]
  /\ UNCHANGED <<config_vars, NDEBUG, time_vars, logger_of, out, failbit, terminated, call, ncalls, nsets, fn_vars>>

\* the next insertions of the line into *_stream, under the mutex
Write(t) ==
  /\ terminated = "no"
  /\ pc[t] = "write"
  /\ fr[t].todo # <<>>
  /\ \E r \in {Insert(Head(fr[t].todo).txt, call[t].shape = "template",
                       failbit[stream])} :
       /\ out' = IF r.put THEN [out EXCEPT ![stream] = Append(@, Head(fr[t].todo))]
                 ELSE out
       /\ failbit' = [failbit EXCEPT ![stream] = r.bad]
  /\ fr' = [fr EXCEPT ![t].todo = Tail(@)]
  /\ UNCHANGED <<config_vars, mutex, NDEBUG, time_vars, logger_of, terminated, pc, call, ncalls, nsets,
                 fn_vars>>

\* the end of the logging function: the lock_guard releases the mutex
Return(t) ==
  /\ terminated = "no"
  /\ pc[t] = "write"
  /\ fr[t].todo = <<>>
  /\ mutex' = [mutex EXCEPT ![logger_of[t]] = "free"]
  /\ pc' = [pc EXCEPT ![t] = "idle"]
  /\ UNCHANGED <<config_vars, NDEBUG, time_vars, logger_of, out, failbit, terminated, call, fr, ncalls, nsets,
                 fn_vars>>

\* the setters are not synchronised: they are called while no logging call runs
CanSet ==
  /\ terminated = "no"
  /\ nsets < MaxSets
  /\ \A t \in Threads : pc[t] = "idle"

\* Logger::set_log_level
set_log_level(lvl) ==
  /\ CanSet
  /\ log_lvl' = lvl
  /\ log_format' = lvl
  /\ nsets' = nsets + 1
  /\ UNCHANGED <<log_output_lvl, stream, mutex, NDEBUG, time_vars, logger_of, out, failbit, terminated, pc, call,
                 fr, ncalls, fn_vars>>

\* Logger::set_log_format
set_log_format(fmt) ==
  /\ CanSet
  /\ log_format' = fmt
  /\ nsets' = nsets + 1
  /\ UNCHANGED <<log_lvl, log_output_lvl, stream, mutex, NDEBUG, time_vars, logger_of, out, failbit, terminated,
                 pc, call, fr, ncalls, fn_vars>>

\* Logger::set_stream
set_stream(s) ==
  /\ CanSet
  /\ stream' = s
  /\ nsets' = nsets + 1
  /\ UNCHANGED <<log_lvl, log_format, log_output_lvl, mutex, NDEBUG, time_vars, logger_of, out, failbit,
                 terminated, pc, call, fr, ncalls, fn_vars>>

\* Logger::set_log_output_level
set_log_output_level(output_lvl) ==
  /\ CanSet
  /\ log_output_lvl' = output_lvl
  /\ nsets' = nsets + 1
  /\ UNCHANGED <<log_lvl, log_format, stream, mutex, NDEBUG, time_vars, logger_of, out, failbit, terminated, pc,
                 call, fr, ncalls, fn_vars>>

\* a step of thread t inside a logging call
Step(t) ==
  \/ WarnRecurse(t)
  \/ WarnOverflow(t)
  \/ Parse(t)
  \/ ErrWrite(t)
  \/ Exit(t)
  \/ Render(t)
  \/ RenderFault(t)
  \/ Write(t)
  \/ Return(t)

\* the logging functions as thread t may call them
LogCall(t) ==
  \/ \E sev \in Severities, fmt \in FlagChoices : ValueFmt(t, sev, fmt)
  \/ \E sev \in Severities : Value(t, sev)
  \/ \E fmt \in FlagChoices : WarnValueFmt(t, fmt)
  \/ WarnValue(t)
  \/ \E fmt \in FlagChoices, tc \in TemplateCalls :
       tc[2] /\ TemplateFmt(t, tc[1], fmt, tc[3], tc[4])
  \/ \E tc \in TemplateCalls : ~tc[2] /\ Template(t, tc[1], tc[3], tc[4])

\* the threads log through one Logger, configured before they start
Next ==
  \/ \E t \in Threads : LogCall(t)
  \/ \E t \in Threads : Step(t)
  \/ \E t \in Threads : WarnSpin(t)
  \/ \E t \in Threads : Lock(t)

Spec == Init /\ [][Next]_vars

\* the same with a Logger made by the default constructor
DefaultLoggerInit == DefaultCtor /\ OneLogger /\ ProgramInit
DefaultLoggerSpec == DefaultLoggerInit /\ [][Next]_vars

\* two threads log through two Loggers made by the default constructor
TwoLoggersInit == DefaultCtor /\ TwoLoggers /\ ProgramInit
TwoLoggersSpec == TwoLoggersInit /\ [][Next]_vars

\* every thread inside a call keeps running, and a thread waiting for the
\* mutex gets it if it is free again and again
FairSpec ==
  /\ Spec
  /\ \A t \in Threads : WF_vars(Step(t)) /\ SF_vars(Lock(t))

\* one thread logs and reconfigures the Logger between its calls
ConfigNext ==
  \/ LogCall(FirstThread)
  \/ Step(FirstThread)
  \/ WarnSpin(FirstThread)
  \/ Lock(FirstThread)
  \/ \E lvl \in {STANDARD, VERBOSE} : set_log_level(lvl)
  \/ \E fmt \in FlagChoices : set_log_format(fmt)
  \/ \E s \in Streams : set_stream(s)
  \/ \E lvl \in {QUIET, DEFAULT, DEBUG} : set_log_output_level(lvl)

ConfigSpec == Init /\ [][ConfigNext]_vars

\* --------------------------------------------------- the Logger and the clock
\* a second passes
MaxClock == 2
Tick ==
  /\ terminated = "no"
  /\ now < MaxClock
  /\ now' = now + 1
  /\ UNCHANGED <<config_vars, mutex, logger_of, NDEBUG, start_time, out, failbit, terminated, pc,
                 call, fr, ncalls, nsets, fn_vars>>

\* one thread logs while time passes
ClockNext ==
  \/ LogCall(FirstThread)
  \/ Step(FirstThread)
  \/ WarnSpin(FirstThread)
  \/ Lock(FirstThread)
  \/ Tick

ClockSpec == Init /\ [][ClockNext]_vars

\* ------------------------------------------------- the padding engine alone
PadChars == {NUL, "_", "#"}
\* every text over {a, b} of at most MaxTextLen characters
PadTexts == UNION {[1..n -> {"a", "b"}] : n \in 0..MaxTextLen}
\* "{#>20s<#}" of the README's example and "test warning", its argument
T_readme == <<"{", "#", ">", "2", "0", "s", "<", "#", "}">>
TestWarning == <<"t", "e", "s", "t", " ", "w", "a", "r", "n", "i", "n", "g">>
\* "{_>7s<#}", and "ab"
T_seven == <<"{", "_", ">", "7", "s", "<", "#", "}">>
Ab == <<"a", "b">>

PadInput(arg, fmt_obj) == [fn |-> "pad", arg |-> arg, fmt_obj |-> fmt_obj]

\* the enumerated directives, and the two examples with their directives parsed
PadInputs ==
  {PadInput(arg, [FormatStringObject EXCEPT !.type = STRING_SPEC, !.mx_len = n,
                    !.left_pad_chr = l, !.right_pad_chr = r]) :
     arg \in PadTexts, n \in 0..MaxPadLen, l \in PadChars, r \in PadChars}
  \cup {PadInput(TestWarning, parse_format_string(T_readme, NUL).objs[1]),
        PadInput(Ab, parse_format_string(T_seven, NUL).objs[1])}

PadInit ==
  /\ log_lvl = STANDARD
  /\ log_format = STANDARD
  /\ log_output_lvl = DEFAULT
  /\ stream = "cerr"
  /\ mutex = [l \in Loggers |-> "free"]
  /\ OneLogger
  /\ NDEBUG = FALSE
  /\ out = [s \in Streams |-> <<>>]
  /\ failbit = [s \in Streams |-> FALSE]
  /\ now = 0
  /\ start_time = now
  /\ terminated = "no"
  /\ pc = [t \in Threads |-> "idle"]
  /\ call = [t \in Threads |-> NoCall]
  /\ fr = [t \in Threads |-> NoFrame]
  /\ ncalls = 0
  /\ nsets = 0
  /\ fn_in \in PadInputs
  /\ fn_out = NoOutput

\* _pad_fmt_arg(str, arg, fmt_obj) on an empty stream
PadApply ==
  /\ fn_in.fn = "pad"
  /\ ~fn_out.done
  /\ fn_out' = [done |-> TRUE, val |-> pad_fmt_arg(fn_in.arg, fn_in.fmt_obj)]
  /\ UNCHANGED <<config_vars, mutex, NDEBUG, time_vars, logger_of, out, failbit, terminated, pc, call, fr, ncalls,
                 nsets, fn_in>>

PadSpec == PadInit /\ [][PadApply]_vars

\* --------------------------------------------- the pure functions, one each
\* a Logger nobody logs through, and an input of the function under study
FnInit(inputs) ==
  /\ log_lvl = STANDARD
  /\ log_format = STANDARD
  /\ log_output_lvl = DEFAULT
  /\ stream = "cerr"
  /\ mutex = [l \in Loggers |-> "free"]
  /\ OneLogger
  /\ NDEBUG \in BOOLEAN
  /\ out = [s \in Streams |-> <<>>]
  /\ failbit = [s \in Streams |-> FALSE]
  /\ now = 0
  /\ start_time = now
  /\ terminated = "no"
  /\ pc = [t \in Threads |-> "idle"]
  /\ call = [t \in Threads |-> NoCall]
  /\ fr = [t \in Threads |-> NoFrame]
  /\ ncalls = 0
  /\ nsets = 0
  /\ fn_in \in inputs
  /\ fn_out = NoOutput

\* the result of the function, with everything else left alone
FnReturn(val) ==
  /\ ~fn_out.done
  /\ fn_out' = [done |-> TRUE, val |-> val]
  /\ UNCHANGED <<config_vars, mutex, NDEBUG, time_vars, logger_of, out, failbit, terminated, pc, call, fr, ncalls,
                 nsets, fn_in>>

\* the doubles logged, as mantissa and number of decimals: 3.14159, 2.5,
\* 2.718281, 1.2345678, 0.000125, 0.25, 1234567, 15000000000, 0.000012
FloatValues ==
  {<<314159, 5>>, <<25, 1>>, <<2718281, 6>>, <<12345678, 7>>, <<125, 6>>,
   <<25, 2>>, <<1234567, 0>>, <<15, -9>>, <<12, 6>>}
MaxDecimalPlaces == 3

\* {.pf}, {_>9.pf} and {9.pf<#} for p up to MaxDecimalPlaces
FloatDirectives ==
  {[FormatStringObject EXCEPT !.type = FLOAT, !.mx_decimal_places = p,
      !.mx_len = w[1], !.left_pad_chr = w[2], !.right_pad_chr = w[3]] :
     p \in 0..MaxDecimalPlaces,
     w \in {<<0, NUL, NUL>>, <<9, "_", NUL>>, <<9, NUL, "#">>}}

FloatInputs ==
  {[fn |-> "fmt_arg", arg |-> FloatArg(DoubleText(v[1], v[2])), fmt_obj |-> o] :
     v \in FloatValues, o \in FloatDirectives}

\* _log_fmt_arg(fmt_arg, _arg, log_fmt, 0, 0, fmt_obj) on an empty stream
FmtArgApply ==
  /\ fn_in.fn = "fmt_arg"
  /\ FnReturn(log_fmt_arg(fn_in.arg, <<>>, 0, 0, fn_in.fmt_obj, NDEBUG))

FloatSpec == FnInit(FloatInputs) /\ [][FmtArgApply]_vars

\* the characters templates are made of, and their greatest length
TemplateChars == {"{", "}", "d", "<", ">", "_", "3"}
MaxTemplateLen == 4
Templates == UNION {[1..n -> TemplateChars] : n \in 0..MaxTemplateLen}

ParseInputs ==
  {[fn |-> "parse", fmt_str |-> f, g |-> g] : f \in Templates, g \in GarbageChars}

\* _parse_format_string(fmt_str), g lying behind the terminating NUL
ParseApply ==
  /\ fn_in.fn = "parse"
  /\ FnReturn(parse_format_string(fn_in.fmt_str, fn_in.g))

ParseSpec == FnInit(ParseInputs) /\ [][ParseApply]_vars

\* "{x}{s}", "{d} {d} {d}" and "<{3s<_}>"
T_adjacent == <<"{", "x", "}", "{", "s", "}">>
T_three == <<"{", "d", "}", " ", "{", "d", "}", " ", "{", "d", "}">>
T_padded == <<"<", "{", "3", "s", "<", "_", "}", ">">>
\* the templates formatted, with the number of their directives
FormatTemplates ==
  {<<T_one, 1>>, <<T_padded, 1>>, <<T_two, 2>>, <<T_adjacent, 2>>, <<T_three, 3>>}
\* the arguments passed: 7, "ab", 255, ""
FormatArgs == {IntArg(7), StrArg(Ab), IntArg(255), StrArg(<<>>)}

\* every template with as many arguments as it has directives
FormatInputs ==
  UNION {{[fn |-> "format", fmt_str |-> tk[1], args |-> a, g |-> g] :
            a \in [1..tk[2] -> FormatArgs], g \in GarbageChars} :
         tk \in FormatTemplates}

\* objs = _parse_format_string(fmt_str); _log_format_string_args(fmt_stream,
\* objs, fmt_str, 0, objs.front().start_idx, 0, first, args...)
FormatApply ==
  /\ fn_in.fn = "format"
  /\ FnReturn(format_string(fn_in.fmt_str, fn_in.args, fn_in.g, FormatStringObject,
                            NDEBUG))

FormatSpec == FnInit(FormatInputs) /\ [][FormatApply]_vars

\* the runs of a line that reach a stream, in order
RECURSIVE Written(_, _, _)
Written(runs, is_buf, bad) ==
  IF runs = <<>> THEN <<>>
  ELSE With(Insert(Head(runs), is_buf, bad),
            LAMBDA r : (IF r.put THEN Head(runs) ELSE <<>>)
                       \o Written(Tail(runs), is_buf, r.bad))

\* the decoration of one line: every set of flags, around a value, around
\* the payload of a template call, and around a payload of no characters
AllFlags ==
  {NEWLINE, TYPE_SIZE, TIMESTAMP, HIGHLIGHT_RED, HIGHLIGHT_GREEN, HIGHLIGHT_YELLOW,
   HIGHLIGHT_DEF, NO_SIZE_LIMIT, NAME}
RECURSIVE SumOf(_)
SumOf(S) == IF S = {} THEN 0 ELSE LET x == CHOOSE y \in S : TRUE IN x + SumOf(S \ {x})
FlagSets == {SumOf(S) : S \in SUBSET AllFlags}
Payloads ==
  {[t |-> <<"4", "2">>, is_buf |-> FALSE, t_sizeof |-> SizeofInt],
   [t |-> Ab, is_buf |-> TRUE, t_sizeof |-> SizeofPtr],
   [t |-> <<>>, is_buf |-> TRUE, t_sizeof |-> SizeofPtr]}
DecorInputs == {[fn |-> "decor", p |-> p, fmt |-> f] : p \in Payloads, f \in FlagSets}

DecorApply ==
  /\ fn_in.fn = "decor"
  /\ FnReturn(Written(parse_fmt_opts(fn_in.p.t, fn_in.p.t_sizeof, fn_in.fmt, 0),
                      fn_in.p.is_buf, FALSE))

DecorSpec == FnInit(DecorInputs) /\ [][DecorApply]_vars

\* the line of one enabled template call with explicit flags on a stream
\* in good state: the flags are OR-ed with the preset of the severity, and
\* the payload is decorated under the result
HighlightBits == {HIGHLIGHT_RED, HIGHLIGHT_GREEN, HIGHLIGHT_YELLOW, HIGHLIGHT_DEF}
OtherFlagSets ==
  {SumOf(S) : S \in SUBSET {NEWLINE, TYPE_SIZE, TIMESTAMP, NO_SIZE_LIMIT, NAME}}
LineInputs ==
  {[fn |-> "line", sev |-> sev, fmt |-> BitOr(h, o)] :
     sev \in Severities, h \in HighlightBits, o \in OtherFlagSets}

LineApply ==
  /\ fn_in.fn = "line"
  /\ FnReturn(Written(parse_fmt_opts(Ab, SizeofPtr,
                                     BitOr(fn_in.fmt, default_fmt(fn_in.sev)), 0),
                      TRUE, FALSE))

LineSpec == FnInit(LineInputs) /\ [][LineApply]_vars

\* ------------------------------------------------ the containers of LogImpl
\* what a stringstream receives: literal text, and the text operator<< gives
\* an element, a key or a value
Lit(txt) == Piece("lit", txt)
El(kind, v) == Piece(kind, ToString(v))

\* vec[i], i counted from 0 as in the code
At(vec, i) == vec[i + 1]

\* for (i = from; i < to; ++i) stream << ", " << vec[i]
RECURSIVE MoreElements(_, _, _)
MoreElements(vec, from, to) ==
  IF from >= to THEN <<>>
  ELSE <<Lit(", "), El("el", At(vec, from))>> \o MoreElements(vec, from + 1, to)

\* operator<<(stream, vec) of a vector or an array
sequence_text(name, vec) ==
  IF vec = <<>> THEN <<Lit(name), Lit(": [] ")>>
  ELSE <<Lit(name), Lit(": ["), El("el", At(vec, 0))>>
       \o MoreElements(vec, 1, Len(vec)) \o <<Lit("] ")>>

\* sizeof(vec) of a vector or an array, sizeof(map) of a map or an
\* unordered_map
SizeofSequence(name, size, sizeof_T) ==
  IF name = "vector" THEN SizeofVector
  ELSE IF size = 0 THEN SizeofEmptyArray ELSE size * sizeof_T
SizeofMapOf(name) == IF name = "map" THEN SizeofMap ELSE SizeofUnorderedMap

\* what parse_fmt_opts is called with: the value t (its text, whether it is a
\* stream buffer, its sizeof) and the type_size argument
Decorate(t, is_buf, t_sizeof, type_size) ==
  [t |-> t, is_buf |-> is_buf, t_sizeof |-> t_sizeof, type_size |-> type_size]

\* the vector of LogImpl::log with its loop over the first elements running
\* from index 0
log_sequence_first_twice(name, vec, fmt, sizeof_T) ==
  LET size == Len(vec)
      size_in_bytes == size * sizeof_T
      start == size - (CPPLOG_MX_ELS \div 2)
  IN IF BitAnd(fmt, NO_SIZE_LIMIT) # 0 \/ size < CPPLOG_MX_ELS
     THEN Decorate(sequence_text(name, vec), FALSE, SizeofSequence(name, size, sizeof_T),
                   size_in_bytes)
     ELSE Decorate(<<Lit(name), Lit(": ["), El("el", At(vec, 0))>>
                   \o MoreElements(vec, 0, CPPLOG_MX_ELS \div 2)
                   \o <<Lit(" ... "), El("el", At(vec, start))>>
                   \o MoreElements(vec, start + 1, size)
                   \o <<Lit("] ")>>,
                   TRUE, SizeofPtr, size_in_bytes)

\* LogImpl::log(stream, vec, fmt) of a std::vector<T> or a std::array<T, SIZE>
log_sequence(name, vec, fmt, sizeof_T) ==
  LET size == Len(vec)
      size_in_bytes == size * sizeof_T
      start == size - (CPPLOG_MX_ELS \div 2)
  IN IF BitAnd(fmt, NO_SIZE_LIMIT) # 0 \/ size < CPPLOG_MX_ELS
     THEN Decorate(sequence_text(name, vec), FALSE, SizeofSequence(name, size, sizeof_T),
                   size_in_bytes)
     ELSE Decorate(<<Lit(name), Lit(": ["), El("el", At(vec, 0))>>
                   \o MoreElements(vec, 1, CPPLOG_MX_ELS \div 2)
                   \o <<Lit(" ... "), El("el", At(vec, start))>>
                   \o MoreElements(vec, start + 1, size)
                   \o <<Lit("] ")>>,
                   TRUE, SizeofPtr, size_in_bytes)

\* stream << map_it->first << ": " << map_it->second
PairText(pair) == <<El("key", pair[1]), Lit(": "), El("val", pair[2])>>

\* for (; left_start < to; ++map_it, ++left_start) stream << ", " << pair;
\* the iterator stands at pair left_start of the iteration order
RECURSIVE MorePairs(_, _, _)
MorePairs(map, left_start, to) ==
  IF left_start >= to THEN <<>>
  ELSE <<Lit(", ")>> \o PairText(At(map, left_start))
       \o MorePairs(map, left_start + 1, to)

\* operator<<(stream, map) of a map or an unordered_map
map_text(name, map) ==
  IF map = <<>> THEN <<Lit(name), Lit(": {} ")>>
  ELSE <<Lit(name), Lit(": {")>> \o PairText(At(map, 0))
       \o MorePairs(map, 1, Len(map)) \o <<Lit("} ")>>

\* the map of LogImpl::log with its last pairs starting and ending one pair early
log_map_short_skip(name, map, fmt, sizeof_K, sizeof_V) ==
  LET size == Len(map)
      size_in_bytes == size * sizeof_K + size * sizeof_V
      left_start == CPPLOG_MX_ELS \div 2
      skip_c == (size - (CPPLOG_MX_ELS \div 2)) - left_start - 1
  IN IF BitAnd(fmt, NO_SIZE_LIMIT) # 0 \/ size < CPPLOG_MX_ELS
     THEN Decorate(map_text(name, map), FALSE, SizeofMapOf(name), size_in_bytes)
     ELSE Decorate(<<Lit(name), Lit(": {")>> \o PairText(At(map, 0))
                   \o MorePairs(map, 1, CPPLOG_MX_ELS \div 2)
                   \o <<Lit(" ... ")>> \o PairText(At(map, left_start + skip_c))
                   \o MorePairs(map, left_start + skip_c + 1, size - 1)
                   \o <<Lit("} ")>>,
                   TRUE, SizeofPtr, size_in_bytes)

\* LogImpl::log(stream, map, fmt) of a std::map<K, V> or a
\* std::unordered_map<K, V>, the pairs in iteration order
log_map(name, map, fmt, sizeof_K, sizeof_V) ==
  LET size == Len(map)
      size_in_bytes == size * sizeof_K + size * sizeof_V
      left_start == CPPLOG_MX_ELS \div 2
      skip_c == (size - (CPPLOG_MX_ELS \div 2)) - left_start
  IN IF BitAnd(fmt, NO_SIZE_LIMIT) # 0 \/ size < CPPLOG_MX_ELS
     THEN Decorate(map_text(name, map), FALSE, SizeofMapOf(name), size_in_bytes)
     ELSE Decorate(<<Lit(name), Lit(": {")>> \o PairText(At(map, 0))
                   \o MorePairs(map, 1, CPPLOG_MX_ELS \div 2)
                   \o <<Lit(" ... ")>> \o PairText(At(map, left_start + skip_c))
                   \o MorePairs(map, left_start + skip_c + 1, size)
                   \o <<Lit("} ")>>,
                   TRUE, SizeofPtr, size_in_bytes)

\* containers of 0 to MaxEls elements, element i of a sequence being i and
\* pair i of a map being i: 100 + i, under the flags that matter to them
MaxEls == 12
SequenceNames == {"vector", "array"}
MapNames == {"map", "unordered_map"}
Elements(n) == [i \in 1..n |-> i]
Pairs(n) == [i \in 1..n |-> <<i, 100 + i>>]
ContainerFlagSets == {SumOf(S) : S \in SUBSET {NEWLINE, TYPE_SIZE, NO_SIZE_LIMIT}}
ContainerInputs ==
  {[fn |-> "container", name |-> c, n |-> n, fmt |-> f] :
     c \in SequenceNames \cup MapNames, n \in 0..MaxEls, f \in ContainerFlagSets}

\* _log_impl.log(*_stream, t, fmt) of a container on a stream in good state
ContainerApply ==
  /\ fn_in.fn = "container"
  /\ \E d \in {IF fn_in.name \in SequenceNames
               THEN log_sequence(fn_in.name, Elements(fn_in.n), fn_in.fmt, SizeofElement)
               ELSE log_map(fn_in.name, Pairs(fn_in.n), fn_in.fmt, SizeofKey,
                            SizeofValue)} :
       FnReturn(Written(parse_fmt_opts(d.t, d.t_sizeof, fn_in.fmt, d.type_size),
                        d.is_buf, FALSE))

ContainerSpec == FnInit(ContainerInputs) /\ [][ContainerApply]_vars

\* ----------------------------------------------------- the strings of LogImpl
\* LogImpl::CPPLOG_MX_STR_LEN
CPPLOG_MX_STR_LEN == 50
\* sizeof(formatted_str)
SizeofFormattedStr == 64
\* the characters formatted_str receives
mx_border == 8
StringOpen == <<"S", "t", "r", "i", "n", "g", ":", " ", "\"">>
Dots == <<".", ".", ".", " ">>

\* stream << str: the characters of str
RECURSIVE Chars(_, _, _)
Chars(str, from, to) ==
  IF from >= to THEN <<>> ELSE <<El("chr", At(str, from))>> \o Chars(str, from + 1, to)

\* the literal characters as the stream shows them
Lits(chars) == [k \in 1..Len(chars) |-> Lit(chars[k])]

\* LogImpl::log with the elided form for every string of 10 characters or more
log_c_str_from_ten(str, fmt) ==
  LET str_len == Len(str)
      pos == Len(StringOpen) + mx_border + Len(Dots) + mx_border + 1
  IN IF BitAnd(fmt, NO_SIZE_LIMIT) # 0 \/ str_len < 10
     THEN [t |-> Chars(str, 0, str_len), is_buf |-> FALSE, t_sizeof |-> SizeofPtr,
           type_size |-> str_len, head |-> {}, tail |-> {}, written |-> {}]
     ELSE [t |-> Lits(StringOpen) \o Chars(str, 0, mx_border) \o Lits(Dots)
                 \o Chars(str, str_len - mx_border, str_len) \o Lits(<<"\"">>),
           is_buf |-> FALSE, t_sizeof |-> SizeofFormattedStr, type_size |-> 0,
           head |-> 0..(mx_border - 1),
           tail |-> (str_len - mx_border)..(str_len - 1),
           written |-> 0..pos]

\* LogImpl::log(stream, str, fmt) of a const char*: what parse_fmt_opts is
\* called with, the indices of str the two loops read, and the indices of
\* formatted_str written, the terminator at pos included
log_c_str(str, fmt) ==
  LET str_len == Len(str)
      pos == Len(StringOpen) + mx_border + Len(Dots) + mx_border + 1
  IN IF BitAnd(fmt, NO_SIZE_LIMIT) # 0 \/ str_len < CPPLOG_MX_STR_LEN
     THEN [t |-> Chars(str, 0, str_len), is_buf |-> FALSE, t_sizeof |-> SizeofPtr,
           type_size |-> str_len, head |-> {}, tail |-> {}, written |-> {}]
     ELSE [t |-> Lits(StringOpen) \o Chars(str, 0, mx_border) \o Lits(Dots)
                 \o Chars(str, str_len - mx_border, str_len) \o Lits(<<"\"">>),
           is_buf |-> FALSE, t_sizeof |-> SizeofFormattedStr, type_size |-> 0,
           head |-> 0..(mx_border - 1),
           tail |-> (str_len - mx_border)..(str_len - 1),
           written |-> 0..pos]

\* strings of no, of 12, and of 49 to 50 + MaxOver characters, character i
\* of a string being i
MaxOver == 2
StringLengths == {0, 12} \cup ((CPPLOG_MX_STR_LEN - 1)..(CPPLOG_MX_STR_LEN + MaxOver))
StringInputs ==
  {[fn |-> "string", n |-> n, fmt |-> f] : n \in StringLengths, f \in ContainerFlagSets}

\* _log_impl.log(*_stream, str, fmt) on a stream in good state
StringApply ==
  /\ fn_in.fn = "string"
  /\ \E d \in {log_c_str(Elements(fn_in.n), fn_in.fmt)} :
       FnReturn([line |-> Written(parse_fmt_opts(d.t, d.t_sizeof, fn_in.fmt, d.type_size),
                                  d.is_buf, FALSE),
                 head |-> d.head, tail |-> d.tail, written |-> d.written])

\* the values LogImpl elides: sequences, maps and strings
ElisionSpec ==
  FnInit(ContainerInputs \cup StringInputs) /\ [][ContainerApply \/ StringApply]_vars

\* the values whose text has no point: the doubles 100.0, 7.0 and 2000.0,
\* and the ints 42 and 0
NoPointArgs ==
  {FloatArg(DoubleText(100, 0)), FloatArg(DoubleText(7, 0)),
   FloatArg(DoubleText(2, -3)), IntArg(42), IntArg(0)}

NoPointInputs ==
  {[fn |-> "fmt_arg", arg |-> a, fmt_obj |-> o] : a \in NoPointArgs, o \in FloatDirectives}

\* a Float directive applied to a text without a point
NoPointSpec == FnInit(NoPointInputs) /\ [][FmtArgApply]_vars

\* the greatest of two indices
Later(a, b) == IF a > b THEN a ELSE b

\* the greatest index of fmt_str the body of the for loop reads at an OPEN at
\* index i: fmt_str[i + 1] of the left pad test, read with i already past the
\* OPEN, and the last character read after it, which is the type character
\* when the switch takes its default and the character tested for CLOSE
\* otherwise
DirectiveLastRead(fmt_str, i, g) ==
  With(LeftPad(fmt_str, i + 1, g), LAMBDA left :
  With(get_number(fmt_str, left.idx, g), LAMBDA len :
  With(Decimals(fmt_str, len.idx, g), LAMBDA dec :
  With(RightPad(fmt_str, dec.idx + 1, g), LAMBDA right :
    Later(i + 2, IF CharAt(fmt_str, dec.idx, g) \notin TypeChars
                 THEN dec.idx ELSE right.idx)))))

RECURSIVE LoopLastRead(_, _, _, _)
\* the greatest index of fmt_str read by the for loop of
\* Logger::_parse_format_string from index i on, last being the greatest so far
LoopLastRead(fmt_str, i, last, g) ==
  IF i >= Len(fmt_str) THEN last
  ELSE IF CharAt(fmt_str, i, g) # OPEN THEN LoopLastRead(fmt_str, i + 1, Later(last, i), g)
  ELSE With(ParseDirective(fmt_str, i, g), LAMBDA d :
       With(Later(last, DirectiveLastRead(fmt_str, i, g)), LAMBDA read :
         IF d.err # "none" THEN read
         ELSE LoopLastRead(fmt_str, d.idx, read, g)))

\* the greatest index read by _parse_format_string(fmt_str): std::strlen reads
\* up to the terminating NUL, the loop whatever it reads
parse_last_read(fmt_str, g) == LoopLastRead(fmt_str, 0, Len(fmt_str), g)

\* _parse_format_string(fmt_str), g lying behind the terminating NUL: what it
\* returns and the greatest index it read
ParseReadApply ==
  /\ fn_in.fn = "parse"
  /\ FnReturn([res |-> parse_format_string(fn_in.fmt_str, fn_in.g),
               last |-> parse_last_read(fn_in.fmt_str, fn_in.g)])

ReadSpec == FnInit(ParseInputs) /\ [][ParseReadApply]_vars

\* ------------------------------------------------------- the full constructor
\* Logger::Logger(name, lvl, fmt, output_lvl, log_impl, stream): the members
\* after construction
Logger_full(lvl, fmt, output_lvl, strm) ==
  [log_lvl |-> STANDARD, log_format |-> STANDARD, log_output_lvl |-> output_lvl,
   stream |-> strm]

CtorFlagSets == {SumOf(S) : S \in SUBSET {NEWLINE, TYPE_SIZE, NAME}} \cup {STANDARD, VERBOSE}
CtorInputs ==
  {[fn |-> "ctor", lvl |-> l, fmt |-> f, output_lvl |-> o, stream |-> s, sev |-> sev] :
     l \in {STANDARD, VERBOSE}, f \in CtorFlagSets, o \in {QUIET, DEFAULT, DEBUG},
     s \in Streams, sev \in {"error", "info", "debug"}}

\* Logger logger(name, lvl, fmt, output_lvl, impl, stream) followed by
\* logger.error(42), logger.info(42) or logger.debug(42): the Logger built and
\* the line its stream receives
CtorApply ==
  /\ fn_in.fn = "ctor"
  /\ \E l \in {Logger_full(fn_in.lvl, fn_in.fmt, fn_in.output_lvl, fn_in.stream)} :
       FnReturn([logger |-> l,
                 line |-> IF EarlyReturn(fn_in.sev, l.log_output_lvl) THEN <<>>
                          ELSE Written(parse_fmt_opts(ArgText(LogValue, INT), SizeofInt,
                                         BitOr(l.log_format, default_fmt(fn_in.sev)), 0),
                                       FALSE, FALSE)])

CtorSpec == FnInit(CtorInputs) /\ [][CtorApply]_vars

\* ------------------------------------------------------ the sink over calls
\* "{s}"
T_string == <<"{", "s", "}">>

\* logger.error("{s}", ""), and the same for the other severities: a template
\* call whose rendered payload has no characters
EmptyTemplate(t, sev) ==
  Enter(t, [sev |-> sev, shape |-> "template", has_fmt |-> FALSE, fmt |-> 0,
            fmt_str |-> T_string, args |-> <<StrArg(<<>>)>>],
        log_format, IF EarlyReturn(sev, log_output_lvl) THEN "idle" ELSE "parse")

\* one thread making its calls one after the other on a Logger built by the
\* full constructor
SinkNext ==
  \/ \E sev \in Severities : EmptyTemplate(FirstThread, sev)
  \/ LogCall(FirstThread)
  \/ Step(FirstThread)
  \/ WarnSpin(FirstThread)
  \/ Lock(FirstThread)

SinkInit == FullCtor /\ OneLogger /\ ProgramInit
SinkSpec == SinkInit /\ [][SinkNext]_vars

\* ------------------------------------------------------------------- claims
\* the chunks a stream holds of the call numbered id
ChunksOf(s, id) == {k \in 1..Len(out[s]) : out[s][k].id = id}
\* the call of thread t wrote something, to some stream
Wrote(t) == \E s \in Streams : ChunksOf(s, fr[t].id) # {}
\* thread t has made a call
Called(t) == call[t].sev # "none"
\* the flags F of the call of thread t: the caller's if given, else the Logger's
FlagsOf(t) == IF call[t].has_fmt THEN call[t].fmt ELSE log_format
\* the template of the call of thread t has a malformed directive
Malformed(t) ==
  /\ call[t].shape = "template"
  /\ parse_format_string(call[t].fmt_str, NUL).err # "none"
\* the number of directives of the template of the call of thread t
NumDirectives(t) == Len(parse_format_string(call[t].fmt_str, NUL).objs)

\* C1: the chunks one call writes to a stream are contiguous: no chunk of
\* another call lies between two of them.
C1_NoInterleaving ==
  \A s \in Streams : \A i, j, k \in 1..Len(out[s]) :
    (i < j /\ j < k /\ out[s][i].id = out[s][k].id) => out[s][j].id = out[s][i].id

\* C2: a call at a severity the output level does not enable (anything while
\* QUIET, debug while DEFAULT) is a no-op: it has returned, wrote nothing, did
\* not run the parser and did not take the mutex.
C2_DisabledIsNoOp ==
  \A t \in Threads :
    (/\ Called(t)
     /\ log_output_lvl \in {QUIET, DEFAULT}
     /\ EarlyReturn(call[t].sev, log_output_lvl))
    => (/\ pc[t] = "idle"
        /\ ~Wrote(t)
        /\ ~fr[t].parsed
        /\ fr[t].locks = 0)

\* C3: every logging call returns: a thread inside a call is eventually
\* outside it again.
C3_EveryCallReturns ==
  \A t \in Threads : (pc[t] # "idle") ~> (pc[t] = "idle")

\* C4: every enabled call decorates with F | preset(severity), F the caller's
\* flags if given and the Logger's otherwise: the call carries F as its format,
\* and the line it writes is decorated with F | preset(severity).
C4_FlagsArePassed ==
  \A t \in Threads :
    (/\ Called(t)
     /\ pc[t] # "idle"
     /\ log_output_lvl \in {DEFAULT, DEBUG}
     /\ ~EarlyReturn(call[t].sev, log_output_lvl))
    => (/\ fr[t].fmt = FlagsOf(t)
        /\ \A s \in Streams : \A k \in ChunksOf(s, fr[t].id) :
             out[s][k].txt[1].kind # "err"
             => out[s][k].fmt = BitOr(FlagsOf(t), default_fmt(call[t].sev)))

\* C5: a template call with a malformed directive fails recoverably: the
\* process goes on and nothing is written for the call.
C5_MalformedIsRecoverable ==
  \A t \in Threads :
    (Called(t) /\ Malformed(t)) => (terminated = "no" /\ ~Wrote(t))

\* C6: a template call whose number of arguments differs from the number of
\* directives writes nothing: no payload of it reaches a stream.
C6_MismatchWritesNothing ==
  \A t \in Threads :
    (/\ Called(t)
     /\ call[t].shape = "template"
     /\ ~Malformed(t)
     /\ NumDirectives(t) > 0
     /\ Len(call[t].args) # NumDirectives(t))
    => \A s \in Streams : \A k \in ChunksOf(s, fr[t].id) :
         out[s][k].txt[1].kind # "payload"

\* C7: every index used on the parsed directive list is smaller than the
\* number of parsed directives.
C7_DirectiveIndexInBounds ==
  \A t \in Threads : \A i \in fr[t].used : i < Len(fr[t].objs)

\* the input of the padding engine and its output, once computed
PadText == fn_in.arg
PadLen == fn_in.fmt_obj.mx_len
PadLeft == fn_in.fmt_obj.left_pad_chr
PadRight == fn_in.fmt_obj.right_pad_chr
Padded == fn_in.fn = "pad" /\ fn_out.done
Max(a, b) == IF a >= b THEN a ELSE b
RECURSIVE Copies(_, _)
Copies(n, chr) == IF n = 0 THEN <<>> ELSE Append(Copies(n - 1, chr), chr)

\* C8 as claimed: for max_length n > 0 the output has length n when
\* n < len(text), and is the first n characters, and length max(n, len(text))
\* otherwise, whatever pad characters are set.
C8_LengthLaw ==
  (Padded /\ PadLen > 0)
  => IF PadLen < Len(PadText)
     THEN fn_out.val = Prefix(PadText, PadLen) /\ Len(fn_out.val) = PadLen
     ELSE Len(fn_out.val) = Max(PadLen, Len(PadText))

\* C8 as amended: for max_length n > 0 the output is the first n characters
\* when n < len(text); otherwise it has length max(n, len(text)) if a pad
\* character is set, and is the text unchanged if none is.
C8_LengthLawWithPadChar ==
  (Padded /\ PadLen > 0)
  => IF PadLen < Len(PadText)
     THEN fn_out.val = Prefix(PadText, PadLen) /\ Len(fn_out.val) = PadLen
     ELSE IF PadLeft # NUL \/ PadRight # NUL
     THEN Len(fn_out.val) = Max(PadLen, Len(PadText))
     ELSE fn_out.val = PadText

\* a text has been given a max_length above its length with no pad character
\* set, and has come out unchanged
C8_Witness ==
  /\ Padded
  /\ PadLen > Len(PadText)
  /\ PadLeft = NUL
  /\ PadRight = NUL
  /\ fn_out.val = PadText

\* C9: with slack = max_length - len(text) > 0, both pad characters set give
\* slack - slack/2 left characters, the text, slack/2 right characters; one pad
\* character set gives all the slack on its side; and the two examples.
C9_PaddingSplit ==
  (Padded /\ PadLen > Len(PadText))
  => LET slack == PadLen - Len(PadText)
     IN /\ (PadLeft # NUL /\ PadRight # NUL)
           => fn_out.val = Copies(slack - (slack \div 2), PadLeft) \o PadText
                           \o Copies(slack \div 2, PadRight)
        /\ (PadLeft # NUL /\ PadRight = NUL)
           => fn_out.val = Copies(slack, PadLeft) \o PadText
        /\ (PadLeft = NUL /\ PadRight # NUL)
           => fn_out.val = PadText \o Copies(slack, PadRight)
        /\ (PadText = TestWarning /\ PadLen = 20 /\ PadLeft = "#" /\ PadRight = "#")
           => fn_out.val = <<"#", "#", "#", "#">> \o TestWarning \o <<"#", "#", "#", "#">>
        /\ (PadText = Ab /\ PadLen = 7 /\ PadLeft = "_" /\ PadRight = "#")
           => fn_out.val = <<"_", "_", "_", "a", "b", "#", "#">>

\* "ab" has been padded to 7 with '_' and '#': an odd slack with both set
C9_Witness ==
  /\ Padded
  /\ PadText = Ab
  /\ PadLen = 7
  /\ PadLeft = "_"
  /\ PadRight = "#"
  /\ Len(fn_out.val) = 7

\* C10: padding returns the text unchanged when max_length is 0 or equals
\* len(text), whatever pad characters are set.
C10_ExactFitUnchanged ==
  (Padded /\ (PadLen = 0 \/ PadLen = Len(PadText))) => fn_out.val = PadText

\* a non-empty text has been padded to its own length with both characters set
C10_Witness ==
  /\ Padded
  /\ Len(PadText) > 0
  /\ PadLen = Len(PadText)
  /\ PadLeft # NUL
  /\ PadRight # NUL

\* the index (from 1) of the first '.' of text, 0 if it has none
PointOf(text) ==
  IF \E k \in 1..Len(text) : text[k] = "."
  THEN CHOOSE k \in 1..Len(text) : text[k] = "." /\ \A j \in 1..(k - 1) : text[j] # "."
  ELSE 0
\* how many digits follow the point of text directly
DigitsAfterPoint(text) ==
  LET dot == PointOf(text)
      IsDigit(k) == text[k] \in {"0", "1", "2", "3", "4", "5", "6", "7", "8", "9"}
  IN Cardinality({k \in (dot + 1)..Len(text) : \A j \in (dot + 1)..k : IsDigit(j)})
\* a Float directive has been applied to a decimal text that has a point
FloatRendered ==
  /\ fn_in.fn = "fmt_arg"
  /\ fn_out.done
  /\ fn_in.fmt_obj.type = FLOAT
  /\ PointOf(fn_in.arg.text) > 0

\* C11: under a Float directive with max_decimal_places p, a decimal text with
\* more than p digits after its point is handed to padding cut right after the
\* p-th of them, and one with at most p digits after its point is handed to
\* padding unchanged.
C11_FloatCut ==
  FloatRendered
  => LET text == fn_in.arg.text
         p == fn_in.fmt_obj.mx_decimal_places
         handed == IF DigitsAfterPoint(text) > p
                   THEN SubSeq(text, 1, PointOf(text) + p)
                   ELSE text
     IN /\ ~fn_out.val.abort
        /\ fn_out.val.text = pad_fmt_arg(handed, fn_in.fmt_obj)

\* the parser has accepted the template: it returned its directives
Accepted == fn_in.fn = "parse" /\ fn_out.done /\ fn_out.val.err = "none"
\* the template from index from (from 0) up to, not including, index to
Span(fmt_str, from, to) == SubSeq(fmt_str, from + 1, to)
\* the literal gaps and the directive spans from directive i on, in order
RECURSIVE Rebuild(_, _, _, _)
Rebuild(fmt_str, objs, i, from) ==
  IF i > Len(objs) THEN Span(fmt_str, from, Len(fmt_str))
  ELSE Span(fmt_str, from, objs[i].start_idx)
       \o Span(fmt_str, objs[i].start_idx, objs[i].end_idx)
       \o Rebuild(fmt_str, objs, i + 1, objs[i].end_idx)

\* C12: the directives of an accepted template come in the order of their
\* '{'; each span [start, end) starts at a '{', ends just after a '}' and lies
\* in the template; spans do not overlap; and the gaps and spans in order
\* are the template again.
C12_SpansOrdered ==
  Accepted
  => LET fmt_str == fn_in.fmt_str
         objs == fn_out.val.objs
     IN /\ \A i \in 1..Len(objs) :
             /\ objs[i].start_idx < objs[i].end_idx
             /\ objs[i].end_idx <= Len(fmt_str)
             /\ fmt_str[objs[i].start_idx + 1] = OPEN
             /\ fmt_str[objs[i].end_idx] = CLOSE
        /\ \A i \in 1..(Len(objs) - 1) : objs[i].end_idx <= objs[i + 1].start_idx
        /\ Rebuild(fmt_str, objs, 1, 0) = fmt_str

\* a template of k >= 1 directives has been formatted with k arguments
Formatted ==
  /\ fn_in.fn = "format"
  /\ fn_out.done
  /\ fn_out.val.err = "none"
  /\ Len(fn_out.val.objs) >= 1
  /\ Len(fn_out.val.objs) = Len(fn_in.args)
\* argument arg rendered under directive obj
RenderedUnder(arg, obj) == log_fmt_arg(arg, <<>>, 0, 0, obj, TRUE).text
\* lit_(i-1) r_i lit_i ... r_k lit_k, lit_(i-1) starting at index from
RECURSIVE Interleaved(_, _, _, _, _)
Interleaved(fmt_str, objs, args, i, from) ==
  IF i > Len(objs) THEN Span(fmt_str, from, Len(fmt_str))
  ELSE Span(fmt_str, from, objs[i].start_idx)
       \o RenderedUnder(args[i], objs[i])
       \o Interleaved(fmt_str, objs, args, i + 1, objs[i].end_idx)

\* C13: for a template of k >= 1 directives called with k arguments the
\* payload is lit_0 r_1 lit_1 ... r_k lit_k: the literal segments outside the
\* directive spans, each once and in order, with the i-th argument rendered
\* under the i-th directive between them.
C13_PayloadInterleaves ==
  Formatted
  => /\ ~fn_out.val.abort
     /\ fn_out.val.text = Interleaved(fn_in.fmt_str, fn_out.val.objs, fn_in.args, 1, 0)

\* "{d}-{_>4s<#}!" has been formatted with 7 and "ab": 7-_ab#!
C13_Witness ==
  /\ Formatted
  /\ fn_in.fmt_str = T_two
  /\ fn_in.args = <<IntArg(7), StrArg(Ab)>>
  /\ fn_out.val.text = <<"7", "-", "_", "a", "b", "#", "!">>

\* C14: a line of the default decoration path is, in this order: at most one
\* colour escape, the prefix the Name and Timestamp flags select, the payload,
\* the size annotation exactly when AnnotateSize is set, the reset-colour
\* marker always, and a newline exactly when Newline is set
Decorated == fn_in.fn = "decor" /\ fn_out.done
PrefixOf(fmt) ==
  IF BitAnd(fmt, NAME) # 0 /\ BitAnd(fmt, TIMESTAMP) # 0
  THEN <<Piece("prefix", "[name, "), Piece("time", strftime_T(start_time)),
         Piece("prefix", "] ")>>
  ELSE IF BitAnd(fmt, NAME) # 0 THEN <<Piece("prefix", "[name] ")>>
  ELSE IF BitAnd(fmt, TIMESTAMP) # 0
  THEN <<Piece("prefix", "["), Piece("time", strftime_T(start_time)),
         Piece("prefix", "] ")>>
  ELSE <<>>
AfterColour(line) ==
  IF line # <<>> /\ Head(line).kind = "colour" THEN Tail(line) ELSE line
C14_LineLayout ==
  Decorated
  => AfterColour(fn_out.val)
       = PrefixOf(fn_in.fmt)
         \o <<Piece("payload", fn_in.p.t)>>
         \o (IF BitAnd(fn_in.fmt, TYPE_SIZE) # 0
             THEN <<Piece("size", fn_in.p.t_sizeof)>> ELSE <<>>)
         \o <<Piece("reset", "default")>>
         \o (IF BitAnd(fn_in.fmt, NEWLINE) # 0 THEN <<Piece("newline", "\n")>> ELSE <<>>)

\* C15: when the highlight bit the caller passes differs from the highlight
\* bit of the preset of the severity, the colour escape of the line is the
\* colour of the caller's bit
ColourName(h) ==
  CASE h = HIGHLIGHT_GREEN -> "green"
    [] h = HIGHLIGHT_YELLOW -> "yellow"
    [] h = HIGHLIGHT_RED -> "red"
    [] h = HIGHLIGHT_DEF -> "default"
HighlightOf(fmt) == CHOOSE h \in HighlightBits : BitAnd(fmt, h) # 0
C15_CallerColourWins ==
  (/\ fn_in.fn = "line"
   /\ fn_out.done
   /\ HighlightOf(fn_in.fmt) # HighlightOf(default_fmt(fn_in.sev)))
  => Head(fn_out.val) = Piece("colour", ColourName(HighlightOf(fn_in.fmt)))

\* C16: the flags set_log_format(F) has set stay the Logger's flags, which a
\* call omitting the flags argument is decorated with, over every logging
\* call and every other setter, until set_log_format is called again
C16_FormatPersists ==
  [][(/\ log_format \in FlagChoices
      /\ ~(\E fmt \in FlagChoices : set_log_format(fmt)))
     => log_format' = log_format]_vars

\* C17: no step of a logging call changes the Logger's flags, verbose level,
\* OutputLevel or stream, and a call that omits the flags argument is
\* decorated with the Logger's flags, whatever flags the calls before it passed
SetterStep ==
  \/ \E lvl \in {STANDARD, VERBOSE} : set_log_level(lvl)
  \/ \E fmt \in FlagChoices : set_log_format(fmt)
  \/ \E s \in Streams : set_stream(s)
  \/ \E lvl \in {QUIET, DEFAULT, DEBUG} : set_log_output_level(lvl)
FlaglessUsesLoggerFlags ==
  \A t \in Threads :
    (Called(t) /\ pc[t] # "idle" /\ ~call[t].has_fmt)
    => /\ fr[t].fmt = log_format
       /\ \A s \in Streams : \A k \in ChunksOf(s, fr[t].id) :
            out[s][k].txt[1].kind # "err"
            => out[s][k].fmt = BitOr(log_format, default_fmt(call[t].sev))
C17_CallsKeepConfig ==
  [][/\ ~SetterStep => UNCHANGED config_vars
     /\ FlaglessUsesLoggerFlags']_vars
\* the second call omits the flags and writes a line without the size
\* annotation the flags of the first call asked for
C17_Witness ==
  /\ ncalls = 2
  /\ nsets = 0
  /\ ~call[FirstThread].has_fmt
  /\ \E k \in ChunksOf(stream, 1) : BitAnd(out[stream][k].fmt, TYPE_SIZE) # 0
  /\ \E k \in ChunksOf(stream, 2) :
       /\ out[stream][k].txt[1].kind = "payload"
       /\ BitAnd(out[stream][k].fmt, TYPE_SIZE) = 0

\* C18: a vector or an array of more than 10 elements logged without
\* NoSizeLimit shows its first 5 elements, " ... ", and its last 5 elements,
\* in their order: 10 elements, none of them twice
Logged(names) == fn_in.fn = "container" /\ fn_in.name \in names /\ fn_out.done
\* the text of the payload of the line
PayloadOf(line) == CHOOSE k \in 1..Len(line) : line[k].kind = "payload"
PayloadText == fn_out.val[PayloadOf(fn_out.val)].txt
IsShown(p) == p.kind = "el"
IsEllipsis(p) == p = Lit(" ... ")
\* the elements shown between two positions of the payload
ShownIn(text, from, to) == SelectSeq(SubSeq(text, from, to), IsShown)
EllipsisAt(text) == CHOOSE k \in 1..Len(text) : IsEllipsis(text[k])
C18_SequenceElision ==
  (/\ Logged(SequenceNames)
   /\ fn_in.n > 10
   /\ BitAnd(fn_in.fmt, NO_SIZE_LIMIT) = 0)
  => LET text == PayloadText
         n == fn_in.n
         vec == Elements(n)
     IN /\ Len(SelectSeq(text, IsEllipsis)) = 1
        /\ ShownIn(text, 1, EllipsisAt(text))
             = [k \in 1..5 |-> El("el", vec[k])]
        /\ ShownIn(text, EllipsisAt(text), Len(text))
             = [k \in 1..5 |-> El("el", vec[n - 5 + k])]
        /\ Len(SelectSeq(text, IsShown)) = 10
        /\ Cardinality({text[k] : k \in 1..Len(text)}
                       \cap {El("el", vec[i]) : i \in 1..n}) = 10
\* a vector of 12 elements has come out as 1 to 5, the ellipsis, 8 to 12
C18_Witness ==
  /\ Logged({"vector"})
  /\ fn_in.n = 12
  /\ fn_in.fmt = TYPE_SIZE
  /\ PayloadText
       = <<Lit("vector"), Lit(": ["), El("el", 1), Lit(", "), El("el", 2), Lit(", "),
           El("el", 3), Lit(", "), El("el", 4), Lit(", "), El("el", 5), Lit(" ... "),
           El("el", 8), Lit(", "), El("el", 9), Lit(", "), El("el", 10), Lit(", "),
           El("el", 11), Lit(", "), El("el", 12), Lit("] ")>>

\* C19: the pairs a map or an unordered_map logged without NoSizeLimit shows
IsKey(p) == p.kind = "key"
KeysIn(text, from, to) == SelectSeq(SubSeq(text, from, to), IsKey)
\* the pairs from..to of the iteration order, as their keys
KeysOf(map, from, to) == [k \in 1..(to - from + 1) |-> El("key", map[from + k - 1][1])]
\* text shows the first and the last half pairs of map around one ellipsis
ElidedTo(text, map, half) ==
  /\ Len(SelectSeq(text, IsEllipsis)) = 1
  /\ KeysIn(text, 1, EllipsisAt(text)) = KeysOf(map, 1, half)
  /\ KeysIn(text, EllipsisAt(text), Len(text))
       = KeysOf(map, Len(map) - half + 1, Len(map))
  /\ Len(SelectSeq(text, IsKey)) = 2 * half
SizePieces == SelectSeq(fn_out.val, LAMBDA p : p.kind = "size")
C20_SizeAnnotation ==
  (/\ Logged(SequenceNames \cup MapNames)
   /\ BitAnd(fn_in.fmt, TYPE_SIZE) # 0)
  => SizePieces
       = <<Piece("size", IF fn_in.name \in SequenceNames
                         THEN fn_in.n * SizeofElement
                         ELSE fn_in.n * (SizeofKey + SizeofValue))>>

\* C21: the time in the prefix of a line is the clock of its logging call, a
\* second between the moment the call was made and the moment it is written
TimesIn(run) == {run[j].txt : j \in {i \in 1..Len(run) : run[i].kind = "time"}}
TimesOf(s, id) == UNION {TimesIn(out[s][k].txt) : k \in ChunksOf(s, id)}
C21_TimestampIsCallTime ==
  \A t \in Threads :
    Called(t)
    => \A s \in Streams :
         TimesOf(s, fr[t].id) \subseteq {strftime_T(c) : c \in fr[t].at..now}

\* C22: on a Logger made by the default constructor the OutputLevel is not
\* Quiet, and an error, warn or info call that has returned has written its
\* line
C22_DefaultLoggerLogs ==
  \A t \in Threads :
    (Called(t) /\ call[t].sev \in {"error", "warn", "info"})
    => /\ log_output_lvl # QUIET
       /\ (pc[t] = "idle" /\ terminated = "no") => Wrote(t)

\* C23: the lines two threads write to one stream through two Loggers do not
\* interleave: between two chunks of the line of one call lies no chunk of
\* the line of another
IsLine(chunk) == chunk.txt[1].kind # "err"
C23_LinesOfTwoLoggers ==
  \A s \in Streams : \A i, j, k \in 1..Len(out[s]) :
    (/\ i < j /\ j < k
     /\ IsLine(out[s][i]) /\ IsLine(out[s][j]) /\ IsLine(out[s][k])
     /\ out[s][i].id = out[s][k].id)
    => out[s][j].id = out[s][i].id

\* C24: a sequence of exactly 10 elements and a string of exactly 50
\* characters logged without NoSizeLimit are shown in full, with no ellipsis
\* marker
LoggedString == fn_in.fn = "string" /\ fn_out.done
StringText == fn_out.val.line[PayloadOf(fn_out.val.line)].txt
C24_AtThresholdInFull ==
  /\ (/\ Logged(SequenceNames)
      /\ fn_in.n = 10
      /\ BitAnd(fn_in.fmt, NO_SIZE_LIMIT) = 0)
     => PayloadText = sequence_text(fn_in.name, Elements(fn_in.n))
  /\ (/\ LoggedString
      /\ fn_in.n = 50
      /\ BitAnd(fn_in.fmt, NO_SIZE_LIMIT) = 0)
     => StringText = Chars(Elements(fn_in.n), 0, fn_in.n)

\* C26: whenever a string is elided, the 8 characters read at its head and the
\* 8 read at its tail lie inside the string and do not overlap, and the text
\* composed, its terminator included, lies inside the 64 bytes of the buffer
C26_ElisionInBounds ==
  (LoggedString /\ fn_out.val.written # {})
  => /\ Cardinality(fn_out.val.head) = 8
     /\ Cardinality(fn_out.val.tail) = 8
     /\ fn_out.val.head \cup fn_out.val.tail \subseteq 0..(fn_in.n - 1)
     /\ fn_out.val.head \cap fn_out.val.tail = {}
     /\ fn_out.val.written \subseteq 0..(SizeofFormattedStr - 1)
     /\ Len(StringText) + 1 = Cardinality(fn_out.val.written)
\* a string of 50 characters has come out as its characters 0 to 7, the dots
\* and its characters 42 to 49
C26_Witness ==
  /\ LoggedString
  /\ fn_in.n = 50
  /\ fn_in.fmt = NEWLINE
  /\ fn_out.val.head = 0..7
  /\ fn_out.val.tail = 42..49
  /\ fn_out.val.written = 0..30
  /\ StringText = Lits(StringOpen) \o Chars(Elements(50), 0, 8) \o Lits(Dots)
                  \o Chars(Elements(50), 42, 50) \o Lits(<<"\"">>)

\* C25: under a Float directive, a decimal text that has no point loses no
\* character: it is handed to padding as it is, and the call completes
C25_NoPointUnchanged ==
  (/\ fn_in.fn = "fmt_arg"
   /\ fn_out.done
   /\ fn_in.fmt_obj.type = FLOAT
   /\ FindDot(ArgText(fn_in.arg, FLOAT)) = npos)
  => /\ ~fn_out.val.abort
     /\ fn_out.val.text = pad_fmt_arg(ArgText(fn_in.arg, FLOAT), fn_in.fmt_obj)

\* C27: the parser reads no character of a template at an index greater than
\* that of its terminating NUL
C27_NoReadPastTerminator ==
  (fn_in.fn = "parse" /\ fn_out.done) => fn_out.val.last <= Len(fn_in.fmt_str)

\* C28: a Logger built by the full constructor with lvl and fmt has verbose
\* level lvl and persistent flags fmt, and the line of its first enabled call
\* without a flags argument is the one decorated with fmt | preset(severity)
C28_CtorStoresLevelAndFlags ==
  (fn_in.fn = "ctor" /\ fn_out.done)
  => /\ fn_out.val.logger.log_lvl = fn_in.lvl
     /\ fn_out.val.logger.log_format = fn_in.fmt
     /\ ~EarlyReturn(fn_in.sev, fn_in.output_lvl)
        => fn_out.val.line
           = Written(parse_fmt_opts(ArgText(LogValue, INT), SizeofInt,
                                    BitOr(fn_in.fmt, default_fmt(fn_in.sev)), 0),
                     FALSE, FALSE)

\* C29: a logging call takes the mutex of its Logger at most once and does not
\* hold it once it has returned, the threads are never all waiting for a mutex
\* that is held, and under fair scheduling a call waiting for the mutex
\* eventually holds it
MutexUse ==
  /\ \A t \in Threads : fr[t].locks <= 1
  /\ \A t \in Threads : pc[t] = "idle" => mutex[logger_of[t]] # t
  /\ ~ \A t \in Threads : pc[t] = "lock" /\ mutex[logger_of[t]] # "free"
C29_MutexOncePerCall ==
  /\ []MutexUse
  /\ \A t \in Threads : (pc[t] = "lock") ~> (mutex[logger_of[t]] = t)

\* the kinds of the pieces the call of thread t has put into the Logger's stream
KindsOf(t) ==
  UNION {{out[stream][k].txt[j].kind : j \in 1..Len(out[stream][k].txt)} :
           k \in ChunksOf(stream, fr[t].id)}
\* thread t has made an enabled call, and the call has returned
Returned(t) ==
  /\ Called(t)
  /\ pc[t] = "idle"
  /\ terminated = "no"
  /\ ~EarlyReturn(call[t].sev, log_output_lvl)

\* C30: every enabled call that has returned has put its whole line into the
\* stream: its payload if that has characters, the reset marker, and the
\* newline if Newline is among its flags, whatever calls went before it
C30_SinkStaysUsable ==
  \A t \in Threads :
    Returned(t)
    => /\ (call[t].shape = "value" \/ fr[t].payload # <<>>) => "payload" \in KindsOf(t)
       /\ "reset" \in KindsOf(t)
       /\ BitAnd(PassedFmt(t), NEWLINE) # 0 => "newline" \in KindsOf(t)

=========================================================================
